---- MODULE Spec2Model ----
(***************************************************************************)
(* A model of the MOS kernel core: the TCB lists and the PreemptPri        *)
(* scheduler, the synchronisation primitives of kernel/sync.hpp (Sema_t,   *)
(* Lock_t, MutexImpl_t, CondVar_t, Barrier_t) and the async executor.      *)
(*                                                                         *)
(* One hardware thread.  A section bracketed by an IrqGuard_t is one       *)
(* atomic step; a Task::yield() requested inside it pends the context      *)
(* switch, which is taken when the guard is destroyed, so the step ends    *)
(* with the switch.  Between two steps of tasks an ISR (the tick, or a     *)
(* device ISR) may run.                                                    *)
(***************************************************************************)
EXTENDS Integers, Sequences, FiniteSets, TLC

VARIABLES
    tcb,         \* TCB fields per task: pri, old_pri, status
    ready_list,  \* the kernel ready list (READY and RUNNING TCBs)
    cur_tcb,     \* the global current TCB
    sleeping_list, \* the kernel sleeping list (tasks in Task::delay)
    blocked_list,  \* the kernel blocked list (tasks blocked by Task::block)
    fault,       \* "none", or the message of the MOS_ASSERT that halted the system
    pc,          \* each task's position in its program
    sema,        \* a Sema_t: cnt and waiting_list
    lock,        \* a Lock_t: sema and owner
    mutex,       \* the MutexImpl_t objects: sema, recursive, owner
    holdcnt,     \* per task and mutex: lock() calls returned minus unlock() calls
    arg,         \* per task: the mutex of its lock() call in progress, or 0
    nested,      \* history: some task has called lock() while holding another mutex
    barrier,     \* a Barrier_t: mtx, cv (its waiting_list), cnt, gen
    my_gen,      \* per task: the local my_gen of its Barrier_t::wait() call
    round,       \* per task: the number of Barrier_t::wait() calls it has returned from
    arrived,     \* history: per generation, the number of wait() calls that snapshot it
    task_buffers, \* Executor::task_buffers[2], as sequences of callables
    write_idx,   \* Executor::write_idx
    sleepers,    \* Executor::sleepers, the entries of the heap
    os_ticks,    \* the tick counter read by the executor
    poll,        \* the executor task's position in poll() and poll()'s locals
    hist,        \* history per callable: where and when it was handed over and invoked
    pushed,      \* history: the callables in the order they were pushed into a buffer
    run_log,     \* history: the callables in the order they were invoked
    poll_no,     \* history: the number of buffer swaps made by poll()
    ticks_done,  \* the number of ticks taken so far
    irq,         \* interrupts are enabled: what test_irq() returns
    page_pool,   \* the first word of each page of Global::page_pool
    page,        \* per task: the index of its page, 0 before a page is assigned
    time_slice,  \* per task: the remainder of its time slice
    init_flag,   \* Executor::get()'s static init_flag
    n_exec,      \* the number of "async/exec" tasks created so far
    call,        \* the arguments of a function call under test
    ret          \* <<its result>>, <<>> before the call

kernelVars == <<tcb, ready_list, cur_tcb, sleeping_list, blocked_list>>
semaVars == <<sema>>
lockVars == <<lock>>
mutexVars == <<mutex, holdcnt, arg, nested>>

barrierVars == <<barrier, my_gen, round, arrived>>

execVars == <<task_buffers, write_idx, sleepers>>
asyncHist == <<hist, pushed, run_log, poll_no>>
asyncVars == <<execVars, os_ticks, poll, asyncHist, ticks_done>>

getVars == <<init_flag, n_exec>>
irqVars == <<irq>>
poolVars == <<page_pool, page>>
rrVars == <<time_slice>>
pureVars == <<call, ret>>

vars == <<kernelVars, fault, pc, semaVars, lockVars, mutexVars, barrierVars, asyncVars, getVars, irqVars, poolVars, rrVars, pureVars>>

semaOther == <<lockVars, mutexVars, barrierVars, asyncVars, getVars, irqVars, poolVars, rrVars, pureVars>>
lockOther == <<semaVars, mutexVars, barrierVars, asyncVars, getVars, irqVars, poolVars, rrVars, pureVars>>
mutexOther == <<semaVars, lockVars, barrierVars, asyncVars, getVars, irqVars, poolVars, rrVars, pureVars>>
barrierOther == <<semaVars, lockVars, mutexVars, asyncVars, getVars, irqVars, poolVars, rrVars, pureVars>>
pureOther == <<kernelVars, fault, pc, semaVars, lockVars, mutexVars, barrierVars, asyncVars, getVars, irqVars, poolVars, rrVars>>
asyncOther == <<kernelVars, pc, semaVars, lockVars, mutexVars, barrierVars, getVars, irqVars, poolVars, rrVars, pureVars>>
getOther == <<semaVars, lockVars, mutexVars, barrierVars, pureVars, irqVars, poolVars, rrVars>>

----------------------------------------------------------------------------
(* Bounds of the model and program constants *)

NTasks == 3
MaxPri == 2
MaxCnt == 2
NMutex == 2
NLockers == 2
NParties == 2
Rounds == 2
MaxRec == 2
MaxStores == 2
POOL_SIZE == 4
TIME_SLICE == 2
RrCycles == 3
MaxFns == 3
MaxTicks == 1
MaxDelay == 1
\* The capacity of each buffer and of the sleepers heap (256 in config.h),
\* scaled down so that a full container is reached.
ASYNC_TASK_MAX == 2
PRI_MIN == 127
PAGE_SIZE == 1024

Idle == 0
Tasks == 1..NTasks
AllTasks == {Idle} \cup Tasks
PriLevels == 1..MaxPri
NoTask == -1
MutexIds == 1..NMutex
Lockers == 1..NLockers
Parties == 1..NParties
Fns == 1..MaxFns
Delays == 0..MaxDelay

----------------------------------------------------------------------------
(* Intrusive TCB lists *)

Remove(list, t) == SelectSeq(list, LAMBDA x : x # t)

InSeq(list, t) == \E i \in 1..Len(list) : list[i] = t

\* Insertion in front of the TCBs of the same priority
InsertInOrder_front(list, t, tc) ==
    LET later == {i \in 1..Len(list) : tc[list[i]].pri >= tc[t].pri}
        at == IF later = {} THEN Len(list) + 1
              ELSE CHOOSE i \in later : \A j \in later : i <= j
    IN SubSeq(list, 1, at - 1) \o <<t>> \o SubSeq(list, at, Len(list))

\* Position dictated by priority ordering: before the first TCB of strictly
\* lower priority (numerically larger), so FIFO within one priority.
InsertInOrder(list, t, tc) ==
    LET later == {i \in 1..Len(list) : tc[list[i]].pri > tc[t].pri}
        at == IF later = {} THEN Len(list) + 1
              ELSE CHOOSE i \in later : \A j \in later : i <= j
    IN SubSeq(list, 1, at - 1) \o <<t>> \o SubSeq(list, at, Len(list))

begin(list) == Head(list)

----------------------------------------------------------------------------
(* Kernel state bundled for the operators that model kernel functions *)

K == [tcb |-> tcb, ready_list |-> ready_list, cur |-> cur_tcb,
      sleeping_list |-> sleeping_list, blocked_list |-> blocked_list]

SetK(k) ==
    /\ tcb' = k.tcb
    /\ ready_list' = k.ready_list
    /\ cur_tcb' = k.cur
    /\ sleeping_list' = k.sleeping_list
    /\ blocked_list' = k.blocked_list

\* block_to_raw() that inserts into dest without unlinking from the ready list
block_to_raw_no_unlink(k, t, dest) ==
    LET tc == [k.tcb EXCEPT ![t].status = "BLOCKED"]
    IN [k |-> [k EXCEPT !.tcb = tc],
        list |-> InsertInOrder(dest, t, tc)]

block_to_raw(k, t, dest) ==
    LET tc == [k.tcb EXCEPT ![t].status = "BLOCKED"]
    IN [k |-> [k EXCEPT !.tcb = tc, !.ready_list = Remove(k.ready_list, t)],
        list |-> InsertInOrder(dest, t, tc)]

resume_raw(k, t, src) ==
    LET tc == [k.tcb EXCEPT ![t].status = "READY"]
    IN [k |-> [k EXCEPT !.tcb = tc,
                        !.ready_list = InsertInOrder(k.ready_list, t, tc)],
        list |-> Remove(src, t)]

\* The highest-priority TCB of the ready list, the first one within its band.
HighestReady(k) ==
    LET rl == k.ready_list
        best == CHOOSE i \in 1..Len(rl) :
                  \A j \in 1..Len(rl) :
                     \/ k.tcb[rl[i]].pri < k.tcb[rl[j]].pri
                     \/ (k.tcb[rl[i]].pri = k.tcb[rl[j]].pri /\ i <= j)
    IN rl[best]

any_higher(k) ==
    \E i \in 1..Len(k.ready_list) :
        k.tcb[k.ready_list[i]].pri < k.tcb[k.cur].pri

switch_to(k, t) == [k EXCEPT !.tcb[t].status = "RUNNING", !.cur = t]

\* next_tcb() that does not mark the preempted incumbent READY
next_tcb_keep_running(k, expired) ==
    LET cr == k.cur
        st == HighestReady(k)
    IN IF k.tcb[cr].status \in {"BLOCKED", "TERMINATED"}
       THEN switch_to(k, st)
       ELSE IF k.tcb[st].pri < k.tcb[cr].pri
       THEN switch_to(k, st)
       ELSE IF expired
       THEN LET rot == [k EXCEPT !.ready_list = InsertInOrder(
                                     Remove(k.ready_list, cr), cr, k.tcb)]
            IN switch_to(rot, HighestReady(rot))
       ELSE k

\* next_tcb() that switches only when the incumbent cannot go on
next_tcb_no_preempt(k, expired) ==
    IF k.tcb[k.cur].status \in {"BLOCKED", "TERMINATED"}
    THEN switch_to(k, HighestReady(k))
    ELSE k

\* PreemptPri.  expired: the incumbent's time slice has reached zero.
next_tcb(k, expired) ==
    LET cr == k.cur
        st == HighestReady(k)
    IN IF k.tcb[cr].status \in {"BLOCKED", "TERMINATED"}
       THEN switch_to(k, st)
       ELSE IF k.tcb[st].pri < k.tcb[cr].pri
       THEN switch_to([k EXCEPT !.tcb[cr].status = "READY"], st)
       ELSE IF expired
       THEN LET rot == [k EXCEPT !.tcb[cr].status = "READY",
                                 !.ready_list = InsertInOrder(
                                     Remove(k.ready_list, cr), cr, k.tcb)]
            IN switch_to(rot, HighestReady(rot))
       ELSE k

\* Task::yield(): the context switch is taken as soon as interrupts are enabled.
yield(k) == next_tcb(k, FALSE)

\* Task::delay(): the caller blocks onto the sleeping list and yields.
Task_delay(k) ==
    LET b == block_to_raw(k, k.cur, k.sleeping_list)
    IN yield([b.k EXCEPT !.sleeping_list = b.list])

\* The tick ISR's wake-up of a sleeper whose delay has run out.
Task_wake(k, t) ==
    LET r == resume_raw(k, t, k.sleeping_list)
    IN [r.k EXCEPT !.sleeping_list = r.list]

----------------------------------------------------------------------------
(* Sema_t *)

Sema_t(n) == [cnt |-> n, waiting_list |-> <<>>]

Sema_down(k, s) ==
    LET c == s.cnt - 1
    IN IF c < 0
       THEN LET b == block_to_raw(k, k.cur, s.waiting_list)
            IN [k |-> yield(b.k), s |-> [cnt |-> c, waiting_list |-> b.list]]
       ELSE [k |-> k, s |-> [s EXCEPT !.cnt = c]]

up_raw_early_inc(k, s) ==
    LET c == s.cnt + 1
        r == IF c < 0
             THEN resume_raw(k, begin(s.waiting_list), s.waiting_list)
             ELSE [k |-> k, list |-> s.waiting_list]
    IN [k |-> r.k, s |-> [cnt |-> c, waiting_list |-> r.list]]

up_raw(k, s) ==
    LET r == IF s.cnt < 0
             THEN resume_raw(k, begin(s.waiting_list), s.waiting_list)
             ELSE [k |-> k, list |-> s.waiting_list]
    IN [k |-> r.k, s |-> [cnt |-> s.cnt + 1, waiting_list |-> r.list]]

Sema_up_no_yield(k, s) == up_raw(k, s)

Sema_up(k, s) ==
    LET r == up_raw(k, s)
    IN [k |-> IF any_higher(r.k) THEN yield(r.k) ELSE r.k, s |-> r.s]

up_from_isr(k, s) == up_raw(k, s)

----------------------------------------------------------------------------
(* Lock_t *)

Lock_t == [sema |-> Sema_t(1), owner |-> NoTask]

\* acquire(), up to the return of sema.down()
Lock_acquire_owner_first(k, l) ==
    LET r == Sema_down(k, l.sema)
    IN [k |-> r.k, l |-> [sema |-> r.s, owner |-> k.cur]]

Lock_acquire_down(k, l) ==
    LET r == Sema_down(k, l.sema)
    IN [k |-> r.k, l |-> [l EXCEPT !.sema = r.s]]

\* acquire(), after sema.down(): the assertion, then the owner assignment
Lock_acquire_assert(k, l) ==
    IF l.owner # k.cur THEN "none" ELSE "Non-recursive lock"

Lock_acquire_own(k, l) == [l EXCEPT !.owner = k.cur]

Lock_release_assert_null_ok(k, l) ==
    IF l.owner = k.cur \/ l.owner = NoTask
    THEN "none" ELSE "Lock can only be released by holder"

\* release(): the assertion, the owner cleared, then sema.up()
Lock_release_assert(k, l) ==
    IF l.owner = k.cur THEN "none" ELSE "Lock can only be released by holder"

Lock_release_clear(k, l) == [l EXCEPT !.owner = NoTask]

Lock_release_up(k, l) ==
    LET r == Sema_up(k, l.sema)
    IN [k |-> r.k, l |-> [l EXCEPT !.sema = r.s]]

----------------------------------------------------------------------------
(* TCB_t priority store/restore, used by the mutex *)

store_pri_record_each(k, t, p) ==
    IF p < k.tcb[t].pri
    THEN [k EXCEPT !.tcb[t].old_pri = k.tcb[t].pri, !.tcb[t].pri = p]
    ELSE k

\* Raise-only; old_pri keeps the original priority.
store_pri(k, t, p) ==
    IF p < k.tcb[t].pri THEN [k EXCEPT !.tcb[t].pri = p] ELSE k

restore_pri(k, t) == [k EXCEPT !.tcb[t].pri = k.tcb[t].old_pri]

----------------------------------------------------------------------------
(* MutexImpl_t *)

MutexImpl_t == [sema |-> Sema_t(1), recursive |-> 0, owner |-> NoTask]

pri_cmp_reversed(lhs, rhs) == lhs > rhs

pri_cmp(lhs, rhs) == lhs < rhs

Mutex_lock_no_boost(k, m) ==
    LET cur == k.cur
    IN IF m.owner = cur
       THEN [k |-> k, m |-> [m EXCEPT !.recursive = @ + 1]]
       ELSE
         LET c == m.sema.cnt - 1
         IN IF c < 0
            THEN LET b == block_to_raw(k, cur, m.sema.waiting_list)
                 IN [k |-> yield(b.k),
                     m |-> [m EXCEPT !.sema = [cnt |-> c, waiting_list |-> b.list]]]
            ELSE [k |-> k,
                  m |-> [sema |-> [m.sema EXCEPT !.cnt = c],
                         recursive |-> 1, owner |-> cur]]

Mutex_lock_copy_pri(k, m) ==
    LET cur == k.cur
    IN IF m.owner = cur
       THEN [k |-> k, m |-> [m EXCEPT !.recursive = @ + 1]]
       ELSE
         LET k1 == IF m.owner # NoTask
                   THEN [k EXCEPT !.tcb[m.owner].pri = k.tcb[cur].pri]
                   ELSE k
             c == m.sema.cnt - 1
         IN IF c < 0
            THEN LET b == block_to_raw(k1, cur, m.sema.waiting_list)
                 IN [k |-> yield(b.k),
                     m |-> [m EXCEPT !.sema = [cnt |-> c, waiting_list |-> b.list]]]
            ELSE [k |-> k1,
                  m |-> [sema |-> [m.sema EXCEPT !.cnt = c],
                         recursive |-> 1, owner |-> cur]]

Mutex_lock(k, m) ==
    LET cur == k.cur
    IN IF m.owner = cur
       THEN [k |-> k, m |-> [m EXCEPT !.recursive = @ + 1]]
       ELSE
         LET k1 == IF m.owner # NoTask
                      /\ pri_cmp(k.tcb[cur].pri, k.tcb[m.owner].pri)
                   THEN store_pri(k, m.owner, k.tcb[cur].pri)
                   ELSE k
             c == m.sema.cnt - 1
         IN IF c < 0
            THEN LET b == block_to_raw(k1, cur, m.sema.waiting_list)
                 IN [k |-> yield(b.k),
                     m |-> [m EXCEPT !.sema = [cnt |-> c, waiting_list |-> b.list]]]
            ELSE [k |-> k1,
                  m |-> [sema |-> [m.sema EXCEPT !.cnt = c],
                         recursive |-> 1, owner |-> cur]]

\* The release part of unlock(), reached when recursive has dropped to 0
\* (m.recursive is already decremented).
Mutex_release_no_handoff(k, m) ==
    LET k1 == restore_pri(k, m.owner)
    IN IF m.sema.waiting_list # <<>>
       THEN LET t == begin(m.sema.waiting_list)
                r == resume_raw(k1, t, m.sema.waiting_list)
            IN [k |-> IF any_higher(r.k) THEN yield(r.k) ELSE r.k,
                m |-> [sema |-> [cnt |-> m.sema.cnt + 1, waiting_list |-> r.list],
                       recursive |-> m.recursive, owner |-> NoTask],
                fault |-> "none"]
       ELSE [k |-> k1,
             m |-> [sema |-> [m.sema EXCEPT !.cnt = @ + 1],
                    recursive |-> m.recursive, owner |-> NoTask],
             fault |-> "none"]

Mutex_release_cnt_kept(k, m) ==
    LET k1 == restore_pri(k, m.owner)
    IN IF m.sema.waiting_list # <<>>
       THEN LET t == begin(m.sema.waiting_list)
                r == resume_raw(k1, t, m.sema.waiting_list)
            IN [k |-> IF any_higher(r.k) THEN yield(r.k) ELSE r.k,
                m |-> [sema |-> [cnt |-> m.sema.cnt, waiting_list |-> r.list],
                       recursive |-> 1, owner |-> t],
                fault |-> "none"]
       ELSE [k |-> k1,
             m |-> [sema |-> [m.sema EXCEPT !.cnt = @ + 1],
                    recursive |-> m.recursive, owner |-> NoTask],
             fault |-> "none"]

Mutex_release(k, m) ==
    LET k1 == restore_pri(k, m.owner)
    IN IF m.sema.waiting_list # <<>>
       THEN LET t == begin(m.sema.waiting_list)
                r == resume_raw(k1, t, m.sema.waiting_list)
            IN [k |-> IF any_higher(r.k) THEN yield(r.k) ELSE r.k,
                m |-> [sema |-> [cnt |-> m.sema.cnt + 1, waiting_list |-> r.list],
                       recursive |-> 1, owner |-> t],
                fault |-> "none"]
       ELSE [k |-> k1,
             m |-> [sema |-> [m.sema EXCEPT !.cnt = @ + 1],
                    recursive |-> m.recursive, owner |-> NoTask],
             fault |-> "none"]

Mutex_unlock_release_each(k, m) ==
    IF m.owner # k.cur
    THEN [k |-> k, m |-> m, fault |-> "Lock can only be released by holder"]
    ELSE Mutex_release(k, [m EXCEPT !.recursive = @ - 1])

Mutex_unlock(k, m) ==
    IF m.owner # k.cur
    THEN [k |-> k, m |-> m, fault |-> "Lock can only be released by holder"]
    ELSE LET m1 == [m EXCEPT !.recursive = @ - 1]
         IN IF m1.recursive > 0
            THEN [k |-> k, m |-> m1, fault |-> "none"]
            ELSE Mutex_release(k, m1)

----------------------------------------------------------------------------
(* CondVar_t: its state is the waiting list *)

has_waiters(cv) == cv # <<>>

\* block_this(): one guarded section
CondVar_block_this(k, cv) ==
    LET b == block_to_raw(k, k.cur, cv)
    IN [k |-> yield(b.k), cv |-> b.list]

wake_up(k, cv) ==
    LET r == resume_raw(k, begin(cv), cv)
    IN [k |-> r.k, cv |-> r.list]

RECURSIVE wake_all(_, _)
wake_all(k, cv) ==
    IF has_waiters(cv)
    THEN LET w == wake_up(k, cv) IN wake_all(w.k, w.cv)
    ELSE [k |-> k, cv |-> cv]

\* notify() that resumes every waiter
CondVar_notify_wakes_all(k, cv) ==
    LET w == wake_all(k, cv)
    IN [k |-> yield(w.k), cv |-> w.cv]

CondVar_notify(k, cv) ==
    LET w == IF has_waiters(cv) THEN wake_up(k, cv) ELSE [k |-> k, cv |-> cv]
    IN [k |-> yield(w.k), cv |-> w.cv]

CondVar_notify_all(k, cv) ==
    LET w == wake_all(k, cv)
    IN [k |-> yield(w.k), cv |-> w.cv]

----------------------------------------------------------------------------
(* Barrier_t *)

Barrier_t(n) == [mtx |-> MutexImpl_t, cv |-> <<>>, total |-> n, cnt |-> 0, gen |-> 0]

Barrier_arrive_no_reset(b) ==
    IF b.cnt + 1 = b.total
    THEN [b |-> [b EXCEPT !.cnt = @ + 1, !.gen = @ + 1], my_gen |-> b.gen, last |-> TRUE]
    ELSE [b |-> [b EXCEPT !.cnt = @ + 1], my_gen |-> b.gen, last |-> FALSE]

\* The body of wait() up to the branch: my_gen = gen; cnt += 1; and for the
\* last arrival cnt = 0; gen += 1.  last: the branch taken.
Barrier_arrive(b) ==
    IF b.cnt + 1 = b.total
    THEN [b |-> [b EXCEPT !.cnt = 0, !.gen = @ + 1], my_gen |-> b.gen, last |-> TRUE]
    ELSE [b |-> [b EXCEPT !.cnt = @ + 1], my_gen |-> b.gen, last |-> FALSE]

\* The predicate of cv.wait(): gen != my_gen
Barrier_pred_none(b, g) == TRUE

Barrier_pred(b, g) == b.gen # g

----------------------------------------------------------------------------
(* Async executor (Executor): the state is the record                     *)
(* [task_buffers, write_idx, sleepers].  A callable is a number of Fns.    *)

\* A uint32_t is the pair <<high half, low half>> of its 16-bit halves, so that
\* sums and differences are taken modulo 2^32 exactly.
Half == 2^16

Zero32 == <<0, 0>>

Max32 == <<Half - 1, Half - 1>>

\* a + n (mod 2^32), for 0 <= n < 2^16
Add32(a, n) ==
    LET lo == a[2] + n
    IN <<(a[1] + (lo \div Half)) % Half, lo % Half>>

\* a - b (mod 2^32)
Sub32(a, b) ==
    LET lo == a[2] - b[2]
        borrow == IF lo < 0 THEN 1 ELSE 0
    IN <<(a[1] - b[1] - borrow) % Half, lo % Half>>

\* static_cast<int32_t>(w) >= 0: the sign bit is clear
Int32NonNeg(w) == w[1] < Half \div 2

\* a > b as unsigned values
Gt32(a, b) == a[1] > b[1] \/ (a[1] = b[1] /\ a[2] > b[2])

E == [task_buffers |-> task_buffers, write_idx |-> write_idx, sleepers |-> sleepers]

SetE(e) ==
    /\ task_buffers' = e.task_buffers
    /\ write_idx' = e.write_idx
    /\ sleepers' = e.sleepers

\* etl::vector::full
full(v) == Len(v) >= ASYNC_TASK_MAX

\* task_buffers[write_idx]
WriteBuf(e) == e.task_buffers[e.write_idx + 1]

\* task_buffers[write_idx].push_back(fn)
push_back(e, f) == [e EXCEPT !.task_buffers[e.write_idx + 1] = Append(@, f)]

Executor_post_unchecked(e, f) == [e |-> push_back(e, f), fault |-> "none"]

Executor_post_front(e, f) ==
    IF ~full(WriteBuf(e))
    THEN [e |-> [e EXCEPT !.task_buffers[e.write_idx + 1] = <<f>> \o @], fault |-> "none"]
    ELSE [e |-> e, fault |-> "Async Queue Full!"]

Executor_post(e, f) ==
    IF ~full(WriteBuf(e))
    THEN [e |-> push_back(e, f), fault |-> "none"]
    ELSE [e |-> e, fault |-> "Async Queue Full!"]

add_sleeper(e, now, ms, f) ==
    IF Cardinality(e.sleepers) < ASYNC_TASK_MAX
    THEN [e |-> [e EXCEPT !.sleepers =
                    @ \cup {[wake_tick |-> Add32(now, ms), task |-> f]}],
          fault |-> "none"]
    ELSE [e |-> e, fault |-> "Async Sleeper Full!"]

\* Sleeper_t::Compare
Compare(lhs, rhs) == Gt32(lhs.wake_tick, rhs.wake_tick)

\* sleepers.top(): an entry that Compare puts before no other entry; the heap
\* fixes no order among entries of equal wake_tick.
Tops(sl) == {n \in sl : \A o \in sl : ~Compare(n, o)}

Due_unsigned(now, wake_tick) == ~Gt32(wake_tick, now)

\* static_cast<int32_t>(now - node.wake_tick) >= 0
Due(now, wake_tick) == Int32NonNeg(Sub32(now, wake_tick))

\* clean_sleepers(): the possible results, each with the callables it pushed
RECURSIVE clean_sleepers(_, _)
clean_sleepers(e, now) ==
    IF e.sleepers = {}
    THEN {[e |-> e, pushed |-> <<>>]}
    ELSE UNION {
        IF Due(now, node.wake_tick)
        THEN LET room == ~full(WriteBuf(e))
                 e1 == IF room THEN push_back(e, node.task) ELSE e
                 e2 == [e1 EXCEPT !.sleepers = @ \ {node}]
             IN {[e |-> r.e, pushed |-> (IF room THEN <<node.task>> ELSE <<>>) \o r.pushed] :
                    r \in clean_sleepers(e2, now)}
        ELSE {[e |-> e, pushed |-> <<>>]}
        : node \in Tops(e.sleepers)}

\* poll(): the guarded switch of the buffers
Executor_swap_no_flip(e) ==
    IF WriteBuf(e) = <<>>
    THEN [e |-> e, swapped |-> FALSE, read_idx |-> e.write_idx]
    ELSE [e |-> e, swapped |-> TRUE, read_idx |-> e.write_idx]

Executor_swap_always(e) ==
    [e |-> [e EXCEPT !.write_idx = 1 - @], swapped |-> TRUE, read_idx |-> e.write_idx]

Executor_swap(e) ==
    IF WriteBuf(e) = <<>>
    THEN [e |-> e, swapped |-> FALSE, read_idx |-> e.write_idx]
    ELSE [e |-> [e EXCEPT !.write_idx = 1 - @], swapped |-> TRUE, read_idx |-> e.write_idx]

Executor_no_clear(e, r) == e

\* poll(): run_list.clear()
Executor_clear(e, r) == [e EXCEPT !.task_buffers[r + 1] = <<>>]

----------------------------------------------------------------------------
(* Initial kernel state: every task created and READY, the first task     *)
(* started.  Priorities are inputs.                                       *)

\* Tasks are interchangeable up to their priorities, and the ready list is
\* kept in priority order: the priorities are drawn in creation order.
\* The tasks of S are created; the others do not exist (TERMINATED, unlinked).
KernelInitWith(S, p) ==
    LET tc0 == [t \in AllTasks |->
                  [pri |-> IF t \in S THEN p[t] ELSE PRI_MIN,
                   old_pri |-> IF t \in S THEN p[t] ELSE PRI_MIN,
                   status |-> IF t \in S \cup {Idle} THEN "READY"
                              ELSE "TERMINATED"]]
        RECURSIVE Build(_, _)
        Build(n, acc) == IF n > NTasks THEN acc
                         ELSE Build(n + 1, IF n \in S
                                           THEN InsertInOrder(acc, n, tc0)
                                           ELSE acc)
        rl == Build(1, <<Idle>>)
        k0 == switch_to([tcb |-> tc0, ready_list |-> rl, cur |-> Idle,
                         sleeping_list |-> <<>>, blocked_list |-> <<>>], rl[1])
    IN /\ tcb = k0.tcb
       /\ ready_list = rl
       /\ cur_tcb = k0.cur
       /\ sleeping_list = <<>>
       /\ blocked_list = <<>>

KernelInitFor(S) ==
    \E p \in {q \in [S -> PriLevels] :
                 \A t, u \in S : t <= u => q[t] <= q[u]} :
        KernelInitWith(S, p)

KernelInit == KernelInitFor(Tasks)

Running(t) == fault = "none" /\ cur_tcb = t

\* The objects a specification does not use stay as constructed.
SemaUnused == sema = Sema_t(0)

LockUnused == lock = Lock_t

MutexUnused ==
    /\ mutex = [m \in MutexIds |-> MutexImpl_t]
    /\ holdcnt = [t \in AllTasks |-> [m \in MutexIds |-> 0]]
    /\ arg = [t \in AllTasks |-> 0]
    /\ nested = FALSE

BarrierUnused ==
    /\ barrier = Barrier_t(NParties)
    /\ my_gen = [t \in AllTasks |-> 0]
    /\ round = [t \in AllTasks |-> 0]
    /\ arrived = [g \in 0..Rounds |-> 0]

NoHist == [via |-> "none", due |-> 0, at_poll |-> 0, in_drain |-> FALSE,
           parent |-> 0, runs |-> 0, run_poll |-> 0]

PollIdle == [pc |-> "idle", read_idx |-> 0, i |-> 0, end |-> 0]

AsyncEmpty ==
    /\ task_buffers = <<<<>>, <<>>>>
    /\ write_idx = 0
    /\ sleepers = {}
    /\ poll = PollIdle
    /\ hist = [f \in Fns |-> NoHist]
    /\ pushed = <<>>
    /\ run_log = <<>>
    /\ poll_no = 0
    /\ ticks_done = 0

AsyncUnused == AsyncEmpty /\ os_ticks = Zero32

\* Executor::get() has not been called
GetUnused == init_flag = FALSE /\ n_exec = 0

\* Executor::get() has run to its end once
GetDone == init_flag = TRUE /\ n_exec = 1

IrqUnused == irq = TRUE

\* The page pool and the time slices are not looked at
PoolUnused ==
    /\ page_pool = [i \in 1..POOL_SIZE |-> 0]
    /\ page = [t \in AllTasks |-> 0]

RrUnused == time_slice = [t \in AllTasks |-> 0]

PureUnused == call = <<>> /\ ret = <<>>

\* The tick ISR: calls next_tcb(); the slice of the incumbent may have expired.
Tick ==
    /\ fault = "none"
    /\ \E expired \in BOOLEAN : SetK(next_tcb(K, expired))
    /\ UNCHANGED <<fault, pc, semaVars, lockVars, mutexVars, barrierVars, asyncVars, getVars, irqVars, poolVars, rrVars, pureVars>>

\* The tick ISR when the delay of sleeper t has run out: t is resumed, then
\* next_tcb() is called.
TickWake(t) ==
    /\ fault = "none"
    /\ InSeq(sleeping_list, t)
    /\ SetK(next_tcb(Task_wake(K, t), FALSE))
    /\ UNCHANGED <<fault, pc, semaVars, lockVars, mutexVars, barrierVars, asyncVars, getVars, irqVars, poolVars, rrVars, pureVars>>

\* A task between two calls of a primitive sleeps in Task::delay().
TaskDelay(t) ==
    /\ Running(t) /\ t \in Tasks
    /\ pc[t] = "run"
    /\ SetK(Task_delay(K))
    /\ UNCHANGED <<fault, pc, semaVars, lockVars, mutexVars, barrierVars, asyncVars, getVars, irqVars, poolVars, rrVars, pureVars>>

----------------------------------------------------------------------------
(* Specification SemaSpec: tasks and an ISR use one Sema_t *)

SemaInit ==
    /\ KernelInit
    /\ fault = "none"
    /\ pc = [t \in AllTasks |-> "run"]
    /\ \E n \in 0..MaxCnt : sema = Sema_t(n)
    /\ LockUnused /\ MutexUnused /\ BarrierUnused /\ AsyncUnused /\ GetUnused /\ PureUnused /\ IrqUnused /\ PoolUnused /\ RrUnused

SemaDown(t) ==
    /\ Running(t) /\ t \in Tasks
    /\ LET r == Sema_down(K, sema) IN SetK(r.k) /\ sema' = r.s
    /\ UNCHANGED <<fault, pc, semaOther>>

SemaUp(t) ==
    /\ Running(t) /\ t \in Tasks
    /\ sema.cnt < MaxCnt
    /\ LET r == Sema_up(K, sema) IN SetK(r.k) /\ sema' = r.s
    /\ UNCHANGED <<fault, pc, semaOther>>

SemaUpFromIsr ==
    /\ fault = "none"
    /\ sema.cnt < MaxCnt
    /\ LET r == up_from_isr(K, sema) IN SetK(r.k) /\ sema' = r.s
    /\ UNCHANGED <<fault, pc, semaOther>>

SemaNext ==
    \/ \E t \in Tasks : SemaDown(t)
    \/ \E t \in Tasks : SemaUp(t)
    \/ SemaUpFromIsr
    \/ \E t \in Tasks : TaskDelay(t)
    \/ \E t \in Tasks : TickWake(t)
    \/ Tick

SemaSpec == SemaInit /\ [][SemaNext]_vars

\* C1: between guarded sections, cnt < 0 means exactly -cnt tasks are on the
\* waiting list and cnt >= 0 means the list is empty; every down() lowers cnt
\* by exactly 1 and every up()/up_from_isr() raises it by exactly 1.
SemaCountMatchesWaiters ==
    /\ (sema.cnt < 0 => Len(sema.waiting_list) = -sema.cnt)
    /\ (sema.cnt >= 0 => sema.waiting_list = <<>>)

SemaStep ==
    /\ (\E t \in Tasks : SemaDown(t)) => sema'.cnt = sema.cnt - 1
    /\ ((\E t \in Tasks : SemaUp(t)) \/ SemaUpFromIsr) => sema'.cnt = sema.cnt + 1
    /\ SemaCountMatchesWaiters'

C1_SemaInvariant == SemaCountMatchesWaiters /\ [][SemaStep]_vars

C1_Witness ==
    /\ sema.cnt = -2
    /\ Len(sema.waiting_list) = 2
    /\ \E t \in Tasks : tcb[t].status = "RUNNING"

----------------------------------------------------------------------------
(* Specification LockSpec: tasks acquire and release one Lock_t; a holder  *)
(* may call acquire() again.                                               *)

LockInit ==
    /\ KernelInit
    /\ fault = "none"
    /\ pc = [t \in AllTasks |-> "run"]
    /\ lock = Lock_t
    /\ SemaUnused /\ MutexUnused /\ BarrierUnused /\ AsyncUnused /\ GetUnused /\ PureUnused /\ IrqUnused /\ PoolUnused /\ RrUnused

LockAcquireDown(t) ==
    /\ Running(t) /\ t \in Tasks
    /\ pc[t] = "run"
    /\ LET r == Lock_acquire_down(K, lock) IN SetK(r.k) /\ lock' = r.l
    /\ pc' = [pc EXCEPT ![t] = "acq_assert"]
    /\ UNCHANGED <<fault, lockOther>>

LockAcquireAssert(t) ==
    /\ Running(t)
    /\ pc[t] \in {"acq_assert", "reacq_assert"}
    /\ fault' = Lock_acquire_assert(K, lock)
    /\ pc' = [pc EXCEPT ![t] = "acq_own"]
    /\ UNCHANGED <<kernelVars, lock, lockOther>>

LockAcquireOwn(t) ==
    /\ Running(t)
    /\ pc[t] = "acq_own"
    /\ lock' = Lock_acquire_own(K, lock)
    /\ pc' = [pc EXCEPT ![t] = "held"]
    /\ UNCHANGED <<kernelVars, fault, lockOther>>

\* L.acquire() by the task that already holds L
LockReacquireDown(t) ==
    /\ Running(t)
    /\ pc[t] = "held"
    /\ LET r == Lock_acquire_down(K, lock) IN SetK(r.k) /\ lock' = r.l
    /\ pc' = [pc EXCEPT ![t] = "reacq_assert"]
    /\ UNCHANGED <<fault, lockOther>>

LockReleaseAssert(t) ==
    /\ Running(t)
    /\ pc[t] = "held"
    /\ fault' = Lock_release_assert(K, lock)
    /\ pc' = [pc EXCEPT ![t] = "rel_clear"]
    /\ UNCHANGED <<kernelVars, lock, lockOther>>

LockReleaseClear(t) ==
    /\ Running(t)
    /\ pc[t] = "rel_clear"
    /\ lock' = Lock_release_clear(K, lock)
    /\ pc' = [pc EXCEPT ![t] = "rel_up"]
    /\ UNCHANGED <<kernelVars, fault, lockOther>>

LockReleaseUp(t) ==
    /\ Running(t)
    /\ pc[t] = "rel_up"
    /\ LET r == Lock_release_up(K, lock) IN SetK(r.k) /\ lock' = r.l
    /\ pc' = [pc EXCEPT ![t] = "run"]
    /\ UNCHANGED <<fault, lockOther>>

LockNext ==
    \/ \E t \in Tasks : LockAcquireDown(t)
    \/ \E t \in Tasks : LockAcquireAssert(t)
    \/ \E t \in Tasks : LockAcquireOwn(t)
    \/ \E t \in Tasks : LockReacquireDown(t)
    \/ \E t \in Tasks : LockReleaseAssert(t)
    \/ \E t \in Tasks : LockReleaseClear(t)
    \/ \E t \in Tasks : LockReleaseUp(t)
    \/ \E t \in Tasks : TaskDelay(t)
    \/ \E t \in Tasks : TickWake(t)
    \/ Tick

LockSpec == LockInit /\ [][LockNext]_vars

\* The task whose sema.down() on the lock has returned and whose sema.up()
\* has not yet run.
LockHolder(t) ==
    \/ pc[t] \in {"acq_assert", "acq_own"} /\ tcb[t].status # "BLOCKED"
    \/ pc[t] \in {"held", "rel_clear", "rel_up", "reacq_assert"}

\* C4: a holder's second acquire() raises the "Non-recursive lock" assertion.
C4_ReacquireAsserts ==
    \A t \in Tasks : pc[t] = "reacq_assert" => fault = "Non-recursive lock"

\* C5: owner is written only after sema.down() has returned: owner is null or
\* names the task holding the semaphore, a contender blocked inside acquire()
\* is never named, and the holder's release() passes its owner == self
\* assertion.
C5_OwnerAfterDown ==
    /\ lock.owner # NoTask => LockHolder(lock.owner)
    /\ \A t \in Tasks :
          (pc[t] \in {"acq_assert", "acq_own"} /\ tcb[t].status = "BLOCKED")
             => lock.owner # t
    /\ \A t \in Tasks : pc[t] \in {"held", "rel_clear"} => lock.owner = t
    /\ fault # "Lock can only be released by holder"
    /\ Cardinality({t \in Tasks : LockHolder(t)}) <= 1

C5_Witness ==
    \E t, u \in Tasks :
        /\ t # u
        /\ pc[t] = "rel_clear" /\ lock.owner = t
        /\ pc[u] = "acq_assert" /\ tcb[u].status = "BLOCKED"

----------------------------------------------------------------------------
(* Specification MutexSpec: tasks lock and unlock one mutex, recursively,  *)
(* each unlock() matching a returned lock().                               *)
(* Specification PipSpec: tasks lock and unlock several mutexes, also      *)
(* nested.                                                                 *)

MutexInit ==
    /\ KernelInit
    /\ fault = "none"
    /\ pc = [t \in AllTasks |-> "run"]
    /\ MutexUnused
    /\ SemaUnused /\ LockUnused /\ BarrierUnused /\ AsyncUnused /\ GetUnused /\ PureUnused /\ IrqUnused /\ PoolUnused /\ RrUnused

MutexLock(t, m) ==
    /\ Running(t) /\ t \in Tasks
    /\ pc[t] = "run"
    /\ holdcnt[t][m] < MaxRec
    /\ LET r == Mutex_lock(K, mutex[m])
           blocked == r.k.tcb[t].status = "BLOCKED"
       IN /\ SetK(r.k)
          /\ mutex' = [mutex EXCEPT ![m] = r.m]
          /\ pc' = [pc EXCEPT ![t] = IF blocked THEN "lock_ret" ELSE "run"]
          /\ arg' = [arg EXCEPT ![t] = IF blocked THEN m ELSE 0]
          /\ holdcnt' = [holdcnt EXCEPT ![t][m] = IF blocked THEN @ ELSE @ + 1]
    /\ nested' = (nested \/ \E m2 \in MutexIds \ {m} : holdcnt[t][m2] > 0)
    /\ UNCHANGED <<fault, mutexOther>>

\* The blocked lock() returns once the task has been resumed and runs again.
MutexLockReturn(t) ==
    /\ Running(t)
    /\ pc[t] = "lock_ret"
    /\ pc' = [pc EXCEPT ![t] = "run"]
    /\ holdcnt' = [holdcnt EXCEPT ![t][arg[t]] = @ + 1]
    /\ arg' = [arg EXCEPT ![t] = 0]
    /\ UNCHANGED <<kernelVars, fault, mutex, nested, mutexOther>>

MutexUnlock(t, m) ==
    /\ Running(t)
    /\ pc[t] = "run"
    /\ holdcnt[t][m] > 0
    /\ LET r == Mutex_unlock(K, mutex[m])
       IN /\ SetK(r.k)
          /\ mutex' = [mutex EXCEPT ![m] = r.m]
          /\ fault' = r.fault
    /\ holdcnt' = [holdcnt EXCEPT ![t][m] = @ - 1]
    /\ UNCHANGED <<pc, arg, nested, mutexOther>>

MutexNext ==
    \/ \E t \in Tasks : MutexLock(t, 1)
    \/ \E t \in Tasks : MutexLockReturn(t)
    \/ \E t \in Tasks : MutexUnlock(t, 1)
    \/ \E t \in Tasks : TaskDelay(t)
    \/ \E t \in Tasks : TickWake(t)
    \/ Tick

MutexSpec == MutexInit /\ [][MutexNext]_vars

PipInit ==
    /\ KernelInitFor(Lockers)
    /\ fault = "none"
    /\ pc = [t \in AllTasks |-> "run"]
    /\ MutexUnused
    /\ SemaUnused /\ LockUnused /\ BarrierUnused /\ AsyncUnused /\ GetUnused /\ PureUnused /\ IrqUnused /\ PoolUnused /\ RrUnused

PipNext ==
    \/ \E t \in Lockers, m \in MutexIds : MutexLock(t, m)
    \/ \E t \in Lockers : MutexLockReturn(t)
    \/ \E t \in Lockers, m \in MutexIds : MutexUnlock(t, m)
    \/ \E t \in Lockers : TaskDelay(t)
    \/ \E t \in Lockers : TickWake(t)
    \/ Tick

PipSpec == PipInit /\ [][PipNext]_vars

\* A task resumed out of a blocked lock() that has not run since.
WokenInLock(t, m) ==
    pc[t] = "lock_ret" /\ arg[t] = m /\ tcb[t].status # "BLOCKED"

\* C2: at most one task is between a returned lock() and its matching final
\* unlock(); the unlock() that finds waiters makes the first waiter the owner
\* with recursive = 1 in the same step that resumes it, and a lock() by
\* another task before the woken task has run blocks.
MutexExclusive ==
    \A m \in {1} :
        /\ Cardinality({t \in Tasks : holdcnt[t][m] > 0 \/ WokenInLock(t, m)}) <= 1
        /\ \A t \in Tasks :
              (holdcnt[t][m] > 0 \/ WokenInLock(t, m)) => mutex[m].owner = t

MutexHandOffStep ==
    \A m \in {1} :
        /\ \A t \in Tasks :
              (~WokenInLock(t, m) /\ WokenInLock(t, m)')
                 => /\ mutex[m].sema.waiting_list # <<>>
                    /\ t = Head(mutex[m].sema.waiting_list)
                    /\ mutex'[m].owner = t
                    /\ mutex'[m].recursive = 1
        /\ \A t, u \in Tasks :
              (t # u /\ WokenInLock(t, m) /\ MutexLock(u, m))
                 => tcb'[u].status = "BLOCKED" /\ mutex'[m].owner = t

C2_MutexHandOff == MutexExclusive /\ [][MutexExclusive' /\ MutexHandOffStep]_vars

C2_Witness ==
    \E m \in {1} : \E t, u \in Tasks :
        /\ t # u
        /\ WokenInLock(t, m) /\ mutex[m].owner = t /\ mutex[m].recursive = 1
        /\ pc[u] = "lock_ret" /\ arg[u] = m /\ tcb[u].status = "BLOCKED"
        /\ mutex[m].sema.waiting_list = <<u>>

\* The priority-inheritance condition: the owner of a contended mutex has a
\* priority at least as high as every waiter's.
PipHolds ==
    \A m \in MutexIds :
        \A i \in 1..Len(mutex[m].sema.waiting_list) :
            /\ mutex[m].owner # NoTask
            /\ tcb[mutex[m].owner].pri <= tcb[mutex[m].sema.waiting_list[i]].pri

\* C3 as stated: the condition holds in every reachable state, also for an
\* owner that holds two mutexes or is itself blocked on another mutex.
C3_PipAlways == PipHolds

\* C3 amended: the condition holds as long as no task has called lock() while
\* holding another mutex.
C3_PipNonNested == ~nested => PipHolds

C3_Witness ==
    /\ ~nested
    /\ \E m \in MutexIds :
          /\ mutex[m].sema.waiting_list # <<>>
          /\ mutex[m].owner # NoTask
          /\ tcb[mutex[m].owner].pri < tcb[mutex[m].owner].old_pri
          /\ tcb[mutex[m].owner].pri = tcb[Head(mutex[m].sema.waiting_list)].pri

----------------------------------------------------------------------------
(* Specification BarrierSpec: NParties tasks each call wait() Rounds times *)
(* on one Barrier_t with total = NParties.                                 *)

BarrierInit ==
    /\ KernelInitFor(Parties)
    /\ fault = "none"
    /\ pc = [t \in AllTasks |-> "run"]
    /\ BarrierUnused
    /\ SemaUnused /\ LockUnused /\ MutexUnused /\ AsyncUnused /\ GetUnused /\ PureUnused /\ IrqUnused /\ PoolUnused /\ RrUnused

\* wait(): mtx.hold() calls mtx.lock()
BarrierLock(t) ==
    /\ Running(t) /\ t \in Parties
    /\ pc[t] = "run" /\ round[t] < Rounds
    /\ LET r == Mutex_lock(K, barrier.mtx)
       IN SetK(r.k) /\ barrier' = [barrier EXCEPT !.mtx = r.m]
    /\ pc' = [pc EXCEPT ![t] = "b_arrive"]
    /\ UNCHANGED <<fault, my_gen, round, arrived, barrierOther>>

BarrierArrive(t) ==
    /\ Running(t)
    /\ pc[t] = "b_arrive"
    /\ LET r == Barrier_arrive(barrier)
       IN /\ barrier' = r.b
          /\ my_gen' = [my_gen EXCEPT ![t] = r.my_gen]
          /\ arrived' = [arrived EXCEPT ![r.my_gen] = @ + 1]
          /\ pc' = [pc EXCEPT ![t] = IF r.last THEN "b_notify" ELSE "b_cv_unlock"]
    /\ UNCHANGED <<kernelVars, fault, round, barrierOther>>

BarrierNotifyAll(t) ==
    /\ Running(t)
    /\ pc[t] = "b_notify"
    /\ LET r == CondVar_notify_all(K, barrier.cv)
       IN SetK(r.k) /\ barrier' = [barrier EXCEPT !.cv = r.cv]
    /\ pc' = [pc EXCEPT ![t] = "b_unlock"]
    /\ UNCHANGED <<fault, my_gen, round, arrived, barrierOther>>

\* cv.wait(): mtx.unlock()
BarrierCvUnlock(t) ==
    /\ Running(t)
    /\ pc[t] = "b_cv_unlock"
    /\ LET r == Mutex_unlock(K, barrier.mtx)
       IN /\ SetK(r.k)
          /\ barrier' = [barrier EXCEPT !.mtx = r.m]
          /\ fault' = r.fault
    /\ pc' = [pc EXCEPT ![t] = "b_pred"]
    /\ UNCHANGED <<my_gen, round, arrived, barrierOther>>

\* cv.wait(): while (!pred())
BarrierCvPred(t) ==
    /\ Running(t)
    /\ pc[t] = "b_pred"
    /\ pc' = [pc EXCEPT ![t] = IF Barrier_pred(barrier, my_gen[t])
                               THEN "b_cv_lock" ELSE "b_block"]
    /\ UNCHANGED <<kernelVars, fault, barrierVars, barrierOther>>

\* cv.wait(): block_this()
BarrierCvBlock(t) ==
    /\ Running(t)
    /\ pc[t] = "b_block"
    /\ LET r == CondVar_block_this(K, barrier.cv)
       IN SetK(r.k) /\ barrier' = [barrier EXCEPT !.cv = r.cv]
    /\ pc' = [pc EXCEPT ![t] = "b_pred"]
    /\ UNCHANGED <<fault, my_gen, round, arrived, barrierOther>>

\* cv.wait(): mtx.lock()
BarrierCvLock(t) ==
    /\ Running(t)
    /\ pc[t] = "b_cv_lock"
    /\ LET r == Mutex_lock(K, barrier.mtx)
       IN SetK(r.k) /\ barrier' = [barrier EXCEPT !.mtx = r.m]
    /\ pc' = [pc EXCEPT ![t] = "b_unlock"]
    /\ UNCHANGED <<fault, my_gen, round, arrived, barrierOther>>

\* wait(): mtx.hold() calls mtx.unlock(); wait() returns
BarrierUnlock(t) ==
    /\ Running(t)
    /\ pc[t] = "b_unlock"
    /\ LET r == Mutex_unlock(K, barrier.mtx)
       IN /\ SetK(r.k)
          /\ barrier' = [barrier EXCEPT !.mtx = r.m]
          /\ fault' = r.fault
    /\ pc' = [pc EXCEPT ![t] = "run"]
    /\ round' = [round EXCEPT ![t] = @ + 1]
    /\ UNCHANGED <<my_gen, arrived, barrierOther>>

BarrierNext ==
    \/ \E t \in Parties : BarrierLock(t)
    \/ \E t \in Parties : BarrierArrive(t)
    \/ \E t \in Parties : BarrierNotifyAll(t)
    \/ \E t \in Parties : BarrierCvUnlock(t)
    \/ \E t \in Parties : BarrierCvPred(t)
    \/ \E t \in Parties : BarrierCvBlock(t)
    \/ \E t \in Parties : BarrierCvLock(t)
    \/ \E t \in Parties : BarrierUnlock(t)
    \/ \E t \in Parties : TaskDelay(t)
    \/ \E t \in Parties : TickWake(t)
    \/ Tick

BarrierSpec == BarrierInit /\ [][BarrierNext]_vars

\* The task has left the predicate loop of cv.wait(), or was the last arrival,
\* or has returned from wait(): it is past the barrier of generation my_gen.
PastBarrier(t) ==
    \/ pc[t] \in {"b_notify", "b_cv_lock", "b_unlock"}
    \/ pc[t] = "run" /\ round[t] > 0

\* C6: no task is past the barrier of generation g before total tasks have
\* called wait() in generation g; gen moves only by the step of the total-th
\* arrival, by one, once per generation.
BarrierSafe ==
    /\ \A t \in Parties : PastBarrier(t) => arrived[my_gen[t]] = barrier.total
    /\ \A g \in 0..Rounds :
          /\ arrived[g] <= barrier.total
          /\ (arrived[g] = barrier.total) <=> (g < barrier.gen)

BarrierGenStep ==
    barrier'.gen # barrier.gen
       => /\ barrier'.gen = barrier.gen + 1
          /\ arrived[barrier.gen] = barrier.total - 1
          /\ arrived'[barrier.gen] = barrier.total
          /\ \E t \in Parties : BarrierArrive(t)

C6_BarrierSafety == BarrierSafe /\ [][BarrierSafe' /\ BarrierGenStep]_vars

C6_Witness ==
    /\ barrier.gen = 2
    /\ \A t \in Parties : pc[t] = "run" /\ round[t] = 2

\* C7: once the last task of a generation has arrived and notified, no task of
\* that generation is left blocked on the condition variable.
C7_NoWaiterLeftBehind ==
    \A t \in Parties :
        (InSeq(barrier.cv, t) /\ my_gen[t] # barrier.gen)
           => \E u \in Parties : pc[u] = "b_notify"

\* The task is inside wait() with its snapshot taken.
InWait(t) == pc[t] \notin {"run", "b_arrive"}

\* The k-th wait() of every task snapshots generation k - 1 and sees generation
\* k once it is past the barrier; a task that has re-entered (my_gen = gen) is
\* not past the barrier; cnt counts the snapshots of the current generation.
BarrierBookkeeping ==
    /\ \A t \in Parties :
          /\ InWait(t) => my_gen[t] = round[t]
          /\ pc[t] \in {"b_notify", "b_cv_lock", "b_unlock"}
                => barrier.gen = my_gen[t] + 1
    /\ barrier.gen <= Rounds
    /\ barrier.gen < Rounds => barrier.cnt = arrived[barrier.gen]
    /\ \A n \in 0..Rounds :
          (\A t \in Parties : pc[t] = "run" /\ round[t] = n)
             => barrier.gen = n /\ barrier.cnt = 0

\* Releasing a cohort leaves cnt at 0; no step takes the changed generation
\* away from a task of an earlier generation that is still inside wait().
BarrierReuseStep ==
    /\ barrier'.gen # barrier.gen => barrier'.cnt = 0
    /\ \A t \in Parties :
          (InWait(t) /\ my_gen[t] # barrier.gen /\ InWait(t)')
             => my_gen'[t] # barrier'.gen

\* C8: the tasks of a cohort snapshot the same generation and see gen + 1 on
\* exit; a released cohort leaves cnt = 0; a task that re-enters is counted in
\* the next generation, is not released by it and does not take the release
\* away from the stragglers; after k completed rounds gen = k and cnt = 0.
C8_BarrierReuse == BarrierBookkeeping /\ [][BarrierBookkeeping' /\ BarrierReuseStep]_vars

C8_Witness ==
    \E r, t \in Parties :
        /\ round[r] = 1 /\ InWait(r) /\ my_gen[r] = barrier.gen
        /\ round[t] = 0 /\ InWait(t) /\ my_gen[t] # barrier.gen
        /\ barrier.cnt = 1

----------------------------------------------------------------------------
(* Specification AsyncSpec: the executor task runs                         *)
(* while (true) { if (!poll()) Task::yield(); } and tasks, ISRs and the    *)
(* running posted callables call post() and delay_ms().  The executor task *)
(* exists (Executor::get() has run), so get() does nothing in the calls.   *)
(* The callers' steps are guarded sections, taken between any two steps of *)
(* poll().                                                                 *)

AsyncInit ==
    /\ KernelInitFor({1})
    /\ tcb[1].pri = 1
    /\ fault = "none"
    /\ pc = [t \in AllTasks |-> "run"]
    /\ AsyncEmpty
    /\ os_ticks \in {Zero32, Max32}
    /\ SemaUnused /\ LockUnused /\ MutexUnused /\ BarrierUnused /\ GetDone /\ PureUnused /\ IrqUnused /\ PoolUnused /\ RrUnused

\* the number of callables handed to post() or delay_ms() so far
NFn == Cardinality({f \in Fns : hist[f].via # "none"})

InDrain == poll.pc \in {"drain", "task"}

\* the callable being invoked, or 0
RunningFn == IF poll.pc = "task" THEN task_buffers[poll.read_idx + 1][poll.i] ELSE 0

NewHist(origin, via, ms) ==
    [via |-> via, due |-> IF via = "delay" THEN ticks_done + ms ELSE 0, at_poll |-> poll_no, in_drain |-> InDrain,
     parent |-> IF origin = "inner" THEN RunningFn ELSE 0,
     runs |-> 0, run_poll |-> 0]

\* post(fn) by a task or an ISR (origin), or by the running callable
Post(origin) ==
    /\ fault = "none"
    /\ NFn < MaxFns
    /\ origin = "inner" => poll.pc = "task"
    /\ LET f == NFn + 1
           r == Executor_post(E, f)
       IN /\ SetE(r.e)
          /\ fault' = r.fault
          /\ IF r.fault = "none"
             THEN /\ hist' = [hist EXCEPT ![f] = NewHist(origin, "post", 0)]
                  /\ pushed' = Append(pushed, f)
             ELSE UNCHANGED <<hist, pushed>>
    /\ UNCHANGED <<os_ticks, poll, run_log, poll_no, ticks_done, asyncOther>>

\* delay_ms(ms, fn) by a task or an ISR (origin), or by the running callable
DelayMs(origin, ms) ==
    /\ fault = "none"
    /\ NFn < MaxFns
    /\ origin = "inner" => poll.pc = "task"
    /\ LET f == NFn + 1
           r == add_sleeper(E, os_ticks, ms, f)
       IN /\ SetE(r.e)
          /\ fault' = r.fault
          /\ IF r.fault = "none"
             THEN hist' = [hist EXCEPT ![f] = NewHist(origin, "delay", ms)]
             ELSE UNCHANGED hist
    /\ UNCHANGED <<os_ticks, poll, pushed, run_log, poll_no, ticks_done, asyncOther>>

\* poll(): clean_sleepers()
PollCleanSleepers ==
    /\ fault = "none"
    /\ poll.pc = "idle"
    /\ \E r \in clean_sleepers(E, os_ticks) :
          /\ SetE(r.e)
          /\ pushed' = pushed \o r.pushed
    /\ poll' = [poll EXCEPT !.pc = "swap"]
    /\ UNCHANGED <<fault, os_ticks, hist, run_log, poll_no, ticks_done, asyncOther>>

\* poll(): the guarded block; return false, or switch the buffers and start
\* the loop over run_list
PollSwap ==
    /\ fault = "none"
    /\ poll.pc = "swap"
    /\ LET r == Executor_swap(E)
       IN /\ SetE(r.e)
          /\ IF r.swapped
             THEN /\ poll' = [pc |-> "drain", read_idx |-> r.read_idx, i |-> 1,
                               end |-> Len(task_buffers[r.read_idx + 1])]
                  /\ poll_no' = poll_no + 1
             ELSE /\ poll' = PollIdle
                  /\ UNCHANGED poll_no
    /\ UNCHANGED <<fault, os_ticks, hist, pushed, run_log, ticks_done, asyncOther>>

\* poll(): the loop calls task()
PollInvoke ==
    /\ fault = "none"
    /\ poll.pc = "drain"
    /\ poll.i <= poll.end
    /\ poll.i <= Len(task_buffers[poll.read_idx + 1])
    /\ LET f == task_buffers[poll.read_idx + 1][poll.i]
       IN /\ run_log' = Append(run_log, f)
          /\ hist' = [hist EXCEPT ![f].runs = @ + 1, ![f].run_poll = poll_no]
    /\ poll' = [poll EXCEPT !.pc = "task"]
    /\ UNCHANGED <<fault, execVars, os_ticks, pushed, poll_no, ticks_done, asyncOther>>

\* task() returns; the loop moves on
TaskReturn ==
    /\ fault = "none"
    /\ poll.pc = "task"
    /\ poll' = [poll EXCEPT !.pc = "drain", !.i = @ + 1]
    /\ UNCHANGED <<fault, execVars, os_ticks, asyncHist, ticks_done, asyncOther>>

\* poll(): run_list.clear(); return true
PollClear ==
    /\ fault = "none"
    /\ poll.pc = "drain"
    /\ poll.i > poll.end
    /\ SetE(Executor_clear(E, poll.read_idx))
    /\ poll' = PollIdle
    /\ UNCHANGED <<fault, os_ticks, asyncHist, ticks_done, asyncOther>>

\* the tick ISR advances os_ticks
AsyncTick ==
    /\ fault = "none"
    /\ ticks_done < MaxTicks
    /\ ticks_done' = ticks_done + 1
    /\ os_ticks' = Add32(os_ticks, 1)
    /\ UNCHANGED <<fault, execVars, poll, asyncHist, asyncOther>>

AsyncNext ==
    \/ \E origin \in {"task", "isr", "inner"} : Post(origin)
    \/ \E origin \in {"task", "isr", "inner"}, ms \in Delays : DelayMs(origin, ms)
    \/ PollCleanSleepers
    \/ PollSwap
    \/ PollInvoke
    \/ TaskReturn
    \/ PollClear
    \/ AsyncTick

AsyncSpec == AsyncInit /\ [][AsyncNext]_vars

\* poll() number n, counted by its switch of the buffers, has returned
PollDone(n) == poll_no > n \/ (poll_no = n /\ ~InDrain)

\* C9: a callable whose post() returned is invoked at most once, only by the
\* first poll() that switches the buffers after the post, and it has been
\* invoked once that poll() has returned; so no later poll() invokes it.
C9_ExactlyOnce ==
    \A f \in Fns :
        hist[f].via = "post"
           => /\ hist[f].runs <= 1
              /\ hist[f].runs = 1 => hist[f].run_poll = hist[f].at_poll + 1
              /\ PollDone(hist[f].at_poll + 1) => hist[f].runs = 1

C9_Witness ==
    \E f, g, h \in Fns :
        /\ hist[h].via = "post" /\ hist[h].parent = 0 /\ ~hist[h].in_drain
        /\ hist[f].via = "post" /\ hist[f].parent = 0 /\ hist[f].in_drain
        /\ hist[g].via = "post" /\ hist[g].parent = h
        /\ hist[f].runs = 1 /\ hist[g].runs = 1 /\ hist[h].runs = 1
        /\ hist[f].run_poll = hist[h].run_poll + 1
        /\ PollDone(hist[f].run_poll)

IsPrefix(a, b) == Len(a) <= Len(b) /\ SubSeq(b, 1, Len(a)) = a

\* the position of f in the invocation order, 0 if it has not been invoked
RunPos(f) ==
    IF \E n \in 1..Len(run_log) : run_log[n] = f
    THEN CHOOSE n \in 1..Len(run_log) : run_log[n] = f
    ELSE 0

\* C10: callables are invoked in the order they were pushed; a callable posted
\* while poll() number k drains is not invoked by poll k but by poll k + 1; two
\* callables posted by one running callable are invoked in post order.
C10_Ordering ==
    /\ IsPrefix(run_log, pushed)
    /\ \A f \in Fns :
          (hist[f].via = "post" /\ hist[f].in_drain)
             => /\ poll_no = hist[f].at_poll => hist[f].runs = 0
                /\ hist[f].runs > 0 => hist[f].run_poll = hist[f].at_poll + 1
    /\ \A x, y \in Fns :
          (/\ x < y
           /\ hist[x].via = "post" /\ hist[y].via = "post"
           /\ hist[x].parent > 0 /\ hist[x].parent = hist[y].parent
           /\ hist[y].runs > 0)
             => /\ RunPos(x) > 0 /\ RunPos(x) < RunPos(y)
                /\ hist[x].run_poll = hist[y].run_poll

C10_Witness ==
    \E x, y \in Fns :
        /\ x < y
        /\ hist[x].parent > 0
        /\ hist[x].via = "post" /\ hist[y].via = "post"
        /\ hist[x].parent = hist[y].parent
        /\ RunPos(y) = RunPos(x) + 1
        /\ hist[y].run_poll = hist[hist[y].parent].run_poll + 1

\* the callable is in the sleepers heap
Sleeping(f) == \E n \in sleepers : n.task = f

\* the step is the clean_sleepers() call of a poll()
CleanStep == poll.pc = "idle" /\ poll'.pc = "swap"

\* C11: a callable handed to delay_ms(d, f) at tick t is pushed into the write
\* buffer no earlier than tick t + d, and the first poll() that runs at or
\* after tick t + d pushes it, whatever other sleepers are in the heap.
SleeperTimingStep ==
    /\ \A f \in Fns :
          (hist[f].via = "delay" /\ ~InSeq(pushed, f) /\ InSeq(pushed', f))
             => ticks_done >= hist[f].due
    /\ CleanStep
          => \A f \in Fns :
                (hist[f].via = "delay" /\ Sleeping(f) /\ ticks_done >= hist[f].due)
                   => InSeq(pushed', f)

C11_SleeperTiming == [][SleeperTimingStep]_vars

\* C13: a sleeper that clean_sleepers() pops from the heap has been pushed into
\* the write buffer, or the capacity assertion has been raised.
DueSleeperKeptStep ==
    CleanStep
       => \/ fault' # "none"
          \/ \A f \in Fns : (Sleeping(f) /\ ~Sleeping(f)') => InSeq(pushed', f)

C13_DueSleeperNotLost == [][DueSleeperKeptStep]_vars

WithinCapacity ==
    /\ \A b \in 1..2 : Len(task_buffers[b]) <= ASYNC_TASK_MAX
    /\ Cardinality(sleepers) <= ASYNC_TASK_MAX

CapacityStep ==
    /\ (\E origin \in {"task", "isr", "inner"} : Post(origin))
          => IF full(WriteBuf(E))
             THEN fault' = "Async Queue Full!" /\ UNCHANGED execVars
             ELSE fault' = "none"
    /\ (\E origin \in {"task", "isr", "inner"}, ms \in Delays : DelayMs(origin, ms))
          => IF Cardinality(sleepers) >= ASYNC_TASK_MAX
             THEN fault' = "Async Sleeper Full!" /\ UNCHANGED execVars
             ELSE fault' = "none"

\* C14: post() on a full write buffer and delay_ms() on a full sleepers heap
\* raise the capacity assertion and leave the buffers, write_idx and the heap
\* as they were; no container ever holds more than ASYNC_TASK_MAX entries.
C14_CapacityErrors == WithinCapacity /\ [][WithinCapacity' /\ CapacityStep]_vars

C14_Witness ==
    /\ fault = "Async Queue Full!"
    /\ Len(WriteBuf(E)) = ASYNC_TASK_MAX

----------------------------------------------------------------------------
(* Specification DueSpec: the due test of clean_sleepers() applied to      *)
(* tick values on both sides of the 32-bit wrap.                           *)

Words == {<<hi, lo>> : hi \in {0, 1, 32767, 32768, 65535}, lo \in {0, 16, 65520, 65535}}

DueInit ==
    /\ KernelInit
    /\ fault = "none"
    /\ pc = [t \in AllTasks |-> "run"]
    /\ call \in [now : Words, wake_tick : Words]
    /\ ret = <<>>
    /\ SemaUnused /\ LockUnused /\ MutexUnused /\ BarrierUnused /\ AsyncUnused /\ GetUnused /\ IrqUnused /\ PoolUnused /\ RrUnused

DueEval ==
    /\ ret = <<>>
    /\ ret' = <<Due(call.now, call.wake_tick)>>
    /\ UNCHANGED <<call, pureOther>>

DueNext == DueEval

DueSpec == DueInit /\ [][DueNext]_vars

\* C12: the due test is the sign of the 32-bit difference now - wake_tick taken
\* modulo 2^32: wake_tick = 0xFFFFFFF0 at now = 0x00000010 is due, wake_tick =
\* 0x00000010 at now = 0xFFFFFFF0 is not; in general a sleeper is due when now
\* is at most 2^31 - 1 ticks past wake_tick, counted around the wrap.
C12_TickWrap ==
    ret # <<>>
       => /\ (call.now = <<0, 16>> /\ call.wake_tick = <<65535, 65520>>) => ret[1] = TRUE
          /\ (call.now = <<65535, 65520>> /\ call.wake_tick = <<0, 16>>) => ret[1] = FALSE
          /\ ret[1] = IF ~Gt32(call.wake_tick, call.now)
                      THEN Sub32(call.now, call.wake_tick)[1] < 32768
                      ELSE Gt32(Sub32(call.wake_tick, call.now), <<32768, 0>>)

C12_Witness ==
    /\ call = [now |-> <<0, 16>>, wake_tick |-> <<65535, 65520>>]
    /\ ret = <<TRUE>>

----------------------------------------------------------------------------
(* Specification GetSpec: the tasks call post(fn), that is Executor::get()  *)
(* and then Executor::post(fn).  get() takes no guard, so the tick can      *)
(* preempt the caller between its statements.  The tasks have a higher      *)
(* priority than the executor (PRI_MIN / 2), so a created executor task     *)
(* does not run while one of them is ready, and Task::create succeeds.      *)

GetInit ==
    /\ KernelInit
    /\ fault = "none"
    /\ pc = [t \in AllTasks |-> "run"]
    /\ AsyncUnused /\ GetUnused /\ IrqUnused /\ PoolUnused /\ RrUnused
    /\ SemaUnused /\ LockUnused /\ MutexUnused /\ BarrierUnused /\ PureUnused

asyncIdle == <<write_idx, sleepers, os_ticks, poll, asyncHist, ticks_done>>

\* get(): if (!init_flag)
GetCheck(t) ==
    /\ Running(t) /\ t \in Tasks
    /\ pc[t] = "run"
    /\ pc' = [pc EXCEPT ![t] = IF init_flag THEN "ex_post" ELSE "get_create"]
    /\ UNCHANGED <<kernelVars, fault, task_buffers, asyncIdle, getVars, getOther>>

\* get(): Task::create(async_exec, nullptr, PRI_MIN / 2, "async/exec")
GetCreate(t) ==
    /\ Running(t)
    /\ pc[t] = "get_create"
    /\ n_exec' = n_exec + 1
    /\ pc' = [pc EXCEPT ![t] = "get_set"]
    /\ UNCHANGED <<kernelVars, fault, task_buffers, asyncIdle, init_flag, getOther>>

\* get(): init_flag = true
GetSetFlag(t) ==
    /\ Running(t)
    /\ pc[t] = "get_set"
    /\ init_flag' = TRUE
    /\ pc' = [pc EXCEPT ![t] = "ex_post"]
    /\ UNCHANGED <<kernelVars, fault, task_buffers, asyncIdle, n_exec, getOther>>

\* Executor::post(fn); the callable of task t is t
GetPost(t) ==
    /\ Running(t)
    /\ pc[t] = "ex_post"
    /\ LET r == Executor_post(E, t)
       IN /\ task_buffers' = r.e.task_buffers
          /\ fault' = r.fault
    /\ pc' = [pc EXCEPT ![t] = "posted"]
    /\ UNCHANGED <<kernelVars, asyncIdle, getVars, getOther>>

GetNext ==
    \/ \E t \in Tasks : GetCheck(t)
    \/ \E t \in Tasks : GetCreate(t)
    \/ \E t \in Tasks : GetSetFlag(t)
    \/ \E t \in Tasks : GetPost(t)
    \/ \E t \in Tasks : TaskDelay(t)
    \/ \E t \in Tasks : TickWake(t)
    \/ Tick

GetSpec == GetInit /\ [][GetNext]_vars

\* C15: at most one "async/exec" task is ever created.
C15_SingleExecutor == n_exec <= 1

----------------------------------------------------------------------------
(* Specification PiSpec: the tasks A = 1 (priority 10), B = 2 (priority 20) *)
(* and C = 3 (priority 5) use one mutex, with the actions of MutexSpec.     *)

PiTasks == {1, 2, 3}

PiPri == <<10, 20, 5>>

PiInit ==
    /\ KernelInitWith(PiTasks, PiPri)
    /\ fault = "none"
    /\ pc = [t \in AllTasks |-> "run"]
    /\ MutexUnused
    /\ SemaUnused /\ LockUnused /\ BarrierUnused /\ AsyncUnused /\ GetUnused /\ PureUnused /\ IrqUnused /\ PoolUnused /\ RrUnused

PiNext ==
    \/ \E t \in PiTasks : MutexLock(t, 1)
    \/ \E t \in PiTasks : MutexLockReturn(t)
    \/ \E t \in PiTasks : MutexUnlock(t, 1)
    \/ \E t \in PiTasks : TaskDelay(t)
    \/ \E t \in PiTasks : TickWake(t)
    \/ Tick

PiSpec == PiInit /\ [][PiNext]_vars

\* A waits for the mutex held by B, and nobody else waits
AWaitsForB == mutex[1].owner = 2 /\ mutex[1].sema.waiting_list = <<1>>

\* C16: when A blocks in lock() on the mutex held by B, B's priority becomes
\* 10 in that step; B, boosted, does not run while C is ready; B's final
\* unlock() passes the mutex to A with owner = A and recursive = 1 and leaves
\* B at priority 20.
PiHandOffStep ==
    /\ (mutex[1].owner = 2 /\ mutex[1].sema.waiting_list = <<>> /\ AWaitsForB')
          => tcb'[2].pri = 10
    /\ (AWaitsForB /\ mutex'[1].owner # 2)
          => /\ mutex'[1].owner = 1 /\ mutex'[1].recursive = 1
             /\ tcb'[2].pri = 20

BoostedBRunsAfterC ==
    (AWaitsForB /\ cur_tcb = 2) => (tcb[2].pri = 10 /\ tcb[3].status # "READY")

C16_PiHandOff ==
    /\ BoostedBRunsAfterC
    /\ [][PiHandOffStep /\ BoostedBRunsAfterC']_vars

C16_Witness ==
    /\ AWaitsForB
    /\ tcb[2].pri = 10
    /\ cur_tcb = 3
    /\ tcb[2].status = "READY"

----------------------------------------------------------------------------
(* Specification StoreSpec: store_pri(p) and restore_pri() are called on    *)
(* the TCB of the first task in any order.  call holds the TCB's priority   *)
(* at creation and the values stored since the last restore; ret holds the  *)
(* values that the last restore_pri() undid.                                *)

StoreInit ==
    /\ KernelInit
    /\ fault = "none"
    /\ pc = [t \in AllTasks |-> "run"]
    /\ call = [p0 |-> tcb[cur_tcb].pri, stores |-> <<>>]
    /\ ret = <<>>
    /\ SemaUnused /\ LockUnused /\ MutexUnused /\ BarrierUnused /\ AsyncUnused /\ GetUnused /\ IrqUnused /\ PoolUnused /\ RrUnused

StorePri(p) ==
    /\ fault = "none"
    /\ Len(call.stores) < MaxStores
    /\ SetK(store_pri(K, cur_tcb, p))
    /\ call' = [call EXCEPT !.stores = Append(@, p)]
    /\ ret' = <<>>
    /\ UNCHANGED <<fault, pc, semaVars, lockVars, mutexVars, barrierVars, asyncVars, getVars, irqVars, poolVars, rrVars>>

RestorePri ==
    /\ fault = "none"
    /\ SetK(restore_pri(K, cur_tcb))
    /\ call' = [call EXCEPT !.stores = <<>>]
    /\ ret' = <<call.stores>>
    /\ UNCHANGED <<fault, pc, semaVars, lockVars, mutexVars, barrierVars, asyncVars, getVars, irqVars, poolVars, rrVars>>

StoreNext ==
    \/ \E p \in 0..MaxPri : StorePri(p)
    \/ RestorePri

StoreSpec == StoreInit /\ [][StoreNext]_vars

\* C17: after restore_pri() the TCB has the priority it was created with,
\* whatever store_pri() calls came before it, none included; until then the
\* priority is the highest of the original and the stored ones.
C17_StoreRestore ==
    /\ ret # <<>> => tcb[cur_tcb].pri = call.p0
    /\ call.stores = <<>> => tcb[cur_tcb].pri = call.p0
    /\ \A n \in 1..Len(call.stores) : tcb[cur_tcb].pri <= call.stores[n]
    /\ tcb[cur_tcb].pri <= call.p0

C17_Witness ==
    /\ ret # <<>>
    /\ Len(ret[1]) = 2
    /\ ret[1][1] < call.p0
    /\ ret[1][2] < ret[1][1]
    /\ tcb[cur_tcb].pri = call.p0

----------------------------------------------------------------------------
(* Specification HolderSpec: tasks use one Lock_t and one mutex, and call   *)
(* release() and unlock() whether or not they hold them.                    *)

HolderInit ==
    /\ KernelInit
    /\ fault = "none"
    /\ pc = [t \in AllTasks |-> "run"]
    /\ lock = Lock_t
    /\ MutexUnused
    /\ SemaUnused /\ BarrierUnused /\ AsyncUnused /\ GetUnused /\ PureUnused /\ IrqUnused /\ PoolUnused /\ RrUnused

\* L.release() by any task
HolderLockRelease(t) ==
    /\ Running(t) /\ t \in Tasks
    /\ pc[t] \in {"run", "held"}
    /\ fault' = Lock_release_assert(K, lock)
    /\ pc' = [pc EXCEPT ![t] = "rel_clear"]
    /\ UNCHANGED <<kernelVars, lock, lockOther>>

\* M.unlock() by any task
HolderMutexUnlock(t) ==
    /\ Running(t) /\ t \in Tasks
    /\ pc[t] = "run"
    /\ LET r == Mutex_unlock(K, mutex[1])
       IN /\ SetK(r.k)
          /\ mutex' = [mutex EXCEPT ![1] = r.m]
          /\ fault' = r.fault
          /\ holdcnt' = [holdcnt EXCEPT ![t][1] = IF r.fault = "none" THEN @ - 1 ELSE @]
    /\ UNCHANGED <<pc, arg, nested, mutexOther>>

HolderNext ==
    \/ \E t \in Tasks : LockAcquireDown(t)
    \/ \E t \in Tasks : LockAcquireAssert(t)
    \/ \E t \in Tasks : LockAcquireOwn(t)
    \/ \E t \in Tasks : HolderLockRelease(t)
    \/ \E t \in Tasks : LockReleaseClear(t)
    \/ \E t \in Tasks : LockReleaseUp(t)
    \/ \E t \in Tasks : MutexLock(t, 1)
    \/ \E t \in Tasks : MutexLockReturn(t)
    \/ \E t \in Tasks : HolderMutexUnlock(t)
    \/ \E t \in Tasks : TaskDelay(t)
    \/ \E t \in Tasks : TickWake(t)
    \/ Tick

HolderSpec == HolderInit /\ [][HolderNext]_vars

NotHolderMsg == "Lock can only be released by holder"

NonHolderStep ==
    \A t \in Tasks :
       /\ (HolderLockRelease(t) /\ lock.owner # t)
             => fault' = NotHolderMsg /\ UNCHANGED <<lock, mutex, kernelVars>>
       /\ (HolderMutexUnlock(t) /\ mutex[1].owner # t)
             => fault' = NotHolderMsg /\ UNCHANGED <<lock, mutex, kernelVars>>

\* C18: release() and unlock() by a task that is not the owner, the owner
\* being null included, stop at the "Lock can only be released by holder"
\* assertion with the owner, the recursive count, the semaphore count and
\* the waiting list as they were; only the holder goes on to clear the owner.
OnlyHolderClears ==
    \A t \in Tasks : (pc[t] = "rel_clear" /\ fault = "none") => lock.owner = t

C18_NonHolderRejected ==
    /\ OnlyHolderClears
    /\ [][NonHolderStep /\ OnlyHolderClears']_vars

C18_Witness ==
    /\ fault = NotHolderMsg
    /\ pc[cur_tcb] = "rel_clear"
    /\ lock.owner = NoTask

----------------------------------------------------------------------------
(* The blocking primitives from their entry, the interrupt assertion       *)
(* included.  en is what test_irq() returns.                               *)

IrqMsg == "Disabled Interrupt"

Sema_t_down_late_assert(en, k, s) ==
    LET r == Sema_down(k, s)
    IN [k |-> r.k, s |-> r.s, fault |-> IF en THEN "none" ELSE IrqMsg]

Sema_t_down(en, k, s) ==
    IF ~en
    THEN [k |-> k, s |-> s, fault |-> IrqMsg]
    ELSE LET r == Sema_down(k, s) IN [k |-> r.k, s |-> r.s, fault |-> "none"]

Sema_t_up(en, k, s) ==
    IF ~en
    THEN [k |-> k, s |-> s, fault |-> IrqMsg]
    ELSE LET r == Sema_up(k, s) IN [k |-> r.k, s |-> r.s, fault |-> "none"]

\* acquire() starts with sema.down()
Lock_t_acquire(en, k, l) ==
    LET r == Sema_t_down(en, k, l.sema)
    IN [k |-> r.k, l |-> [l EXCEPT !.sema = r.s], fault |-> r.fault]

MutexImpl_t_lock(en, k, m) ==
    IF ~en
    THEN [k |-> k, m |-> m, fault |-> IrqMsg]
    ELSE LET r == Mutex_lock(k, m) IN [k |-> r.k, m |-> r.m, fault |-> "none"]

\* the interrupt assertion comes before the owner assertion
MutexImpl_t_unlock(en, k, m) ==
    IF ~en
    THEN [k |-> k, m |-> m, fault |-> IrqMsg]
    ELSE Mutex_unlock(k, m)

----------------------------------------------------------------------------
(* Specification IrqSpec: tasks call the blocking primitives of one        *)
(* semaphore, one lock, one mutex, one condition variable and one barrier, *)
(* and disable and enable interrupts between the calls.  call holds the    *)
(* name of the call that raised the interrupt assertion.                   *)

irqOther == <<asyncVars, getVars, poolVars, rrVars, ret>>

Called(f, name) == call' = IF f = "none" THEN call ELSE <<name>>

IrqInit ==
    /\ KernelInitFor(Parties)
    /\ fault = "none"
    /\ pc = [t \in AllTasks |-> "run"]
    /\ irq = TRUE /\ PoolUnused /\ RrUnused
    /\ sema = Sema_t(0)
    /\ lock = Lock_t
    /\ MutexUnused /\ BarrierUnused /\ AsyncUnused /\ GetUnused /\ PureUnused

IrqDisable(t) ==
    /\ Running(t) /\ t \in Parties
    /\ pc[t] = "run" /\ irq
    /\ irq' = FALSE
    /\ UNCHANGED <<kernelVars, fault, pc, semaVars, lockVars, mutexVars, barrierVars, call, irqOther>>

IrqEnable(t) ==
    /\ Running(t) /\ t \in Parties
    /\ pc[t] = "run" /\ ~irq
    /\ irq' = TRUE
    /\ UNCHANGED <<kernelVars, fault, pc, semaVars, lockVars, mutexVars, barrierVars, call, irqOther>>

IrqSemaDown(t) ==
    /\ Running(t) /\ t \in Parties
    /\ pc[t] = "run"
    /\ LET r == Sema_t_down(irq, K, sema)
       IN SetK(r.k) /\ sema' = r.s /\ fault' = r.fault /\ Called(r.fault, "Sema_t::down")
    /\ UNCHANGED <<pc, lockVars, mutexVars, barrierVars, irqVars, irqOther>>

IrqSemaUp(t) ==
    /\ Running(t) /\ t \in Parties
    /\ pc[t] = "run"
    /\ sema.cnt < MaxCnt
    /\ LET r == Sema_t_up(irq, K, sema)
       IN SetK(r.k) /\ sema' = r.s /\ fault' = r.fault /\ Called(r.fault, "Sema_t::up")
    /\ UNCHANGED <<pc, lockVars, mutexVars, barrierVars, irqVars, irqOther>>

IrqLockAcquire(t) ==
    /\ Running(t) /\ t \in Parties
    /\ pc[t] = "run"
    /\ LET r == Lock_t_acquire(irq, K, lock)
       IN /\ SetK(r.k) /\ lock' = r.l /\ fault' = r.fault
          /\ Called(r.fault, "Lock_t::acquire")
          /\ pc' = [pc EXCEPT ![t] = IF r.fault = "none" THEN "acq_assert" ELSE @]
    /\ UNCHANGED <<semaVars, mutexVars, barrierVars, irqVars, irqOther>>

IrqMutexLock(t) ==
    /\ Running(t) /\ t \in Parties
    /\ pc[t] = "run"
    /\ holdcnt[t][1] < MaxRec
    /\ LET r == MutexImpl_t_lock(irq, K, mutex[1])
           blocked == r.k.tcb[t].status = "BLOCKED"
       IN /\ SetK(r.k) /\ fault' = r.fault
          /\ Called(r.fault, "MutexImpl_t::lock")
          /\ mutex' = [mutex EXCEPT ![1] = r.m]
          /\ pc' = [pc EXCEPT ![t] = IF blocked THEN "lock_ret" ELSE "run"]
          /\ arg' = [arg EXCEPT ![t] = IF blocked THEN 1 ELSE 0]
          /\ holdcnt' = [holdcnt EXCEPT ![t][1] =
                            IF blocked \/ r.fault # "none" THEN @ ELSE @ + 1]
    /\ UNCHANGED <<nested, semaVars, lockVars, barrierVars, irqVars, irqOther>>

IrqMutexUnlock(t) ==
    /\ Running(t) /\ t \in Parties
    /\ pc[t] = "run"
    /\ holdcnt[t][1] > 0
    /\ LET r == MutexImpl_t_unlock(irq, K, mutex[1])
       IN /\ SetK(r.k) /\ fault' = r.fault
          /\ Called(r.fault, "MutexImpl_t::unlock")
          /\ mutex' = [mutex EXCEPT ![1] = r.m]
          /\ holdcnt' = [holdcnt EXCEPT ![t][1] = IF r.fault = "none" THEN @ - 1 ELSE @]
    /\ UNCHANGED <<pc, arg, nested, semaVars, lockVars, barrierVars, irqVars, irqOther>>

\* cv.wait(mtx, pred) by a task that holds mtx: mtx.unlock()
IrqCvWait(t) ==
    /\ Running(t) /\ t \in Parties
    /\ pc[t] = "run"
    /\ holdcnt[t][1] = 1
    /\ LET r == MutexImpl_t_unlock(irq, K, mutex[1])
       IN /\ SetK(r.k) /\ fault' = r.fault
          /\ Called(r.fault, "CondVar_t::wait")
          /\ mutex' = [mutex EXCEPT ![1] = r.m]
          /\ holdcnt' = [holdcnt EXCEPT ![t][1] = IF r.fault = "none" THEN 0 ELSE @]
          /\ pc' = [pc EXCEPT ![t] = IF r.fault = "none" THEN "cvw_pred" ELSE @]
    /\ UNCHANGED <<arg, nested, semaVars, lockVars, barrierVars, irqVars, irqOther>>

\* cv.wait(): while (!pred()), the predicate being the caller's
CvWaitPred(t, holds) ==
    /\ Running(t)
    /\ pc[t] = "cvw_pred"
    /\ pc' = [pc EXCEPT ![t] = IF holds THEN "cvw_lock" ELSE "cvw_block"]
    /\ UNCHANGED <<kernelVars, fault, semaVars, lockVars, mutexVars, barrierVars, irqVars, call, irqOther>>

\* cv.wait(): block_this()
CvWaitBlock(t) ==
    /\ Running(t)
    /\ pc[t] = "cvw_block"
    /\ LET r == CondVar_block_this(K, barrier.cv)
       IN SetK(r.k) /\ barrier' = [barrier EXCEPT !.cv = r.cv]
    /\ pc' = [pc EXCEPT ![t] = "cvw_pred"]
    /\ UNCHANGED <<fault, my_gen, round, arrived, semaVars, lockVars, mutexVars, irqVars, call, irqOther>>

\* cv.wait(): mtx.lock()
CvWaitLock(t) ==
    /\ Running(t)
    /\ pc[t] = "cvw_lock"
    /\ LET r == MutexImpl_t_lock(irq, K, mutex[1])
           blocked == r.k.tcb[t].status = "BLOCKED"
       IN /\ SetK(r.k) /\ fault' = r.fault
          /\ Called(r.fault, "MutexImpl_t::lock")
          /\ mutex' = [mutex EXCEPT ![1] = r.m]
          /\ pc' = [pc EXCEPT ![t] = IF blocked THEN "lock_ret" ELSE "run"]
          /\ arg' = [arg EXCEPT ![t] = IF blocked THEN 1 ELSE 0]
          /\ holdcnt' = [holdcnt EXCEPT ![t][1] = IF blocked THEN @ ELSE @ + 1]
    /\ UNCHANGED <<nested, semaVars, lockVars, barrierVars, irqVars, irqOther>>

\* barrier.wait(): mtx.hold() calls mtx.lock()
IrqBarrierWait(t) ==
    /\ Running(t) /\ t \in Parties
    /\ pc[t] = "run" /\ round[t] < Rounds
    /\ LET r == MutexImpl_t_lock(irq, K, barrier.mtx)
       IN /\ SetK(r.k) /\ fault' = r.fault
          /\ Called(r.fault, "Barrier_t::wait")
          /\ barrier' = [barrier EXCEPT !.mtx = r.m]
          /\ pc' = [pc EXCEPT ![t] = IF r.fault = "none" THEN "b_arrive" ELSE @]
    /\ UNCHANGED <<my_gen, round, arrived, semaVars, lockVars, mutexVars, irqVars, irqOther>>

IrqNext ==
    \/ \E t \in Parties : IrqDisable(t)
    \/ \E t \in Parties : IrqEnable(t)
    \/ \E t \in Parties : IrqSemaDown(t)
    \/ \E t \in Parties : IrqSemaUp(t)
    \/ \E t \in Parties : IrqLockAcquire(t)
    \/ \E t \in Parties : LockAcquireAssert(t)
    \/ \E t \in Parties : LockAcquireOwn(t)
    \/ \E t \in Parties : LockReleaseAssert(t)
    \/ \E t \in Parties : LockReleaseClear(t)
    \/ \E t \in Parties : LockReleaseUp(t)
    \/ \E t \in Parties : IrqMutexLock(t)
    \/ \E t \in Parties : MutexLockReturn(t)
    \/ \E t \in Parties : IrqMutexUnlock(t)
    \/ \E t \in Parties : IrqCvWait(t)
    \/ \E t \in Parties, holds \in BOOLEAN : CvWaitPred(t, holds)
    \/ \E t \in Parties : CvWaitBlock(t)
    \/ \E t \in Parties : CvWaitLock(t)
    \/ \E t \in Parties : IrqBarrierWait(t)
    \/ \E t \in Parties : BarrierArrive(t)
    \/ \E t \in Parties : BarrierNotifyAll(t)
    \/ \E t \in Parties : BarrierCvUnlock(t)
    \/ \E t \in Parties : BarrierCvPred(t)
    \/ \E t \in Parties : BarrierCvBlock(t)
    \/ \E t \in Parties : BarrierCvLock(t)
    \/ \E t \in Parties : BarrierUnlock(t)

IrqSpec == IrqInit /\ [][IrqNext]_vars

IrqEntry(t) ==
    \/ IrqSemaDown(t) \/ IrqSemaUp(t) \/ IrqLockAcquire(t)
    \/ IrqMutexLock(t) \/ IrqMutexUnlock(t) \/ IrqCvWait(t) \/ IrqBarrierWait(t)

IrqEntryStep ==
    \A t \in Parties :
       (IrqEntry(t) /\ ~irq)
          => /\ fault' = IrqMsg
             /\ UNCHANGED <<kernelVars, sema, lock, mutex, barrier>>

\* C19: Sema_t::down, Sema_t::up, Lock_t::acquire, MutexImpl_t::lock,
\* MutexImpl_t::unlock, CondVar_t::wait and Barrier_t::wait, entered with
\* interrupts disabled, raise the "Disabled Interrupt" assertion with every
\* counter, owner field and waiting list as it was and the caller not blocked;
\* the assertion is raised in no other case.
IrqFaultOnlyDisabled ==
    fault = IrqMsg => (~irq /\ call # <<>> /\ tcb[cur_tcb].status = "RUNNING")

C19_IrqAsserted ==
    /\ IrqFaultOnlyDisabled
    /\ [][IrqEntryStep /\ IrqFaultOnlyDisabled']_vars

C19_Witness ==
    /\ fault = IrqMsg
    /\ call = <<"CondVar_t::wait">>
    /\ mutex[1].owner = cur_tcb
    /\ mutex[1].sema.waiting_list # <<>>

----------------------------------------------------------------------------
(* Alloc::palloc(POOL).  page_pool[i] is the first word of pool page i;    *)
(* page i starts at address Base(i); nullptr is 0.                         *)

Pages == 1..POOL_SIZE

Base(i) == i * PAGE_SIZE

unused_any_base(raw, word) == word = 0 \/ word \in {Base(i) : i \in Pages}

\* the lambda unused(raw), word being raw[0]
unused(raw, word) == word = 0 \/ word = raw

RECURSIVE scan(_, _)
scan(pool, i) ==
    IF i > POOL_SIZE THEN 0
    ELSE IF unused(Base(i), pool[i]) THEN Base(i)
    ELSE scan(pool, i + 1)

palloc(pool) == scan(pool, 1)

\* First words a page can hold: null, the base of a page, or any other
\* value, here the address of the second word of a page.
HeadWords == {0} \cup {Base(i) : i \in Pages} \cup {Base(i) + 4 : i \in Pages}

(* Specification PallocSpec: palloc(POOL) is called on a pool whose pages  *)
(* hold any first words.                                                   *)

PallocInit ==
    /\ KernelInitWith(Tasks, [t \in Tasks |-> MaxPri])
    /\ fault = "none"
    /\ pc = [t \in AllTasks |-> "run"]
    /\ call \in [page_pool : [Pages -> HeadWords]]
    /\ ret = <<>>
    /\ SemaUnused /\ LockUnused /\ MutexUnused /\ BarrierUnused /\ AsyncUnused /\ GetUnused /\ IrqUnused /\ PoolUnused /\ RrUnused

PallocCall ==
    /\ ret = <<>>
    /\ ret' = <<palloc(call.page_pool)>>
    /\ UNCHANGED <<call, pureOther>>

PallocNext == PallocCall

PallocSpec == PallocInit /\ [][PallocNext]_vars

Unused == {i \in Pages : call.page_pool[i] \in {0, Base(i)}}

\* C20: palloc(POOL) returns the base of the lowest-indexed page whose
\* first word is null or the page's own base, null exactly when there is no
\* such page, never a page with any other first word, and it leaves the
\* pages as they were.
PallocResult ==
    ret # <<>> =>
       /\ (ret[1] = 0) <=> (Unused = {})
       /\ ret[1] # 0 =>
             \E i \in Unused : /\ ret[1] = Base(i)
                               /\ \A j \in Unused : i <= j

C20_Palloc ==
    /\ PallocResult
    /\ [][PallocResult' /\ call' = call]_vars

C20_Witness ==
    /\ ret = <<Base(2)>>
    /\ call.page_pool[1] = Base(2)
    /\ call.page_pool[2] = Base(2)
    /\ call.page_pool[3] = 0

----------------------------------------------------------------------------
(* Task::create, Task::terminate, Task::block, Task::resume and the page   *)
(* pool.  A TCB lies at the base of its page and begins with its list      *)
(* node, so the first word of a page in use is the node's prev pointer.    *)

\* Every TCB list of the model
AllLists ==
    <<ready_list, sleeping_list, blocked_list, sema.waiting_list,
      lock.sema.waiting_list, barrier.mtx.sema.waiting_list, barrier.cv>>
    \o [m \in MutexIds |-> mutex[m].sema.waiting_list]

\* The number of places where t is linked
Links(t) ==
    LET all == AllLists
        RECURSIVE count(_)
        count(n) == IF n = 0 THEN 0
                    ELSE count(n - 1)
                         + Cardinality({j \in 1..Len(all[n]) : all[n][j] = t})
    IN count(Len(all))

\* The address of a list's own head node: outside the pool
ListNode == Base(POOL_SIZE + 1)

\* The prev pointer of t's node
PrevOf(t) ==
    LET all == AllLists
        holds == {n \in 1..Len(all) : InSeq(all[n], t)}
    IN IF holds = {} THEN Base(page[t])
       ELSE LET l == all[CHOOSE n \in holds : TRUE]
                j == CHOOSE j \in 1..Len(l) : l[j] = t
            IN IF j = 1 THEN ListNode ELSE Base(page[l[j - 1]])

\* The first words of the pool pages as they are in memory
Pool ==
    [i \in Pages |->
        IF \E t \in AllTasks : page[t] = i /\ tcb[t].status # "TERMINATED"
        THEN PrevOf(CHOOSE t \in AllTasks : page[t] = i /\ tcb[t].status # "TERMINATED")
        ELSE page_pool[i]]

PageOf(addr) == addr \div PAGE_SIZE

\* Task::terminate without the write of the page base into the head word
Task_terminate_no_recycle(k, t) ==
    LET k1 == [k EXCEPT !.tcb[t] = [pri |-> PRI_MIN, old_pri |-> PRI_MIN,
                                        status |-> "TERMINATED"],
                        !.ready_list = Remove(@, t),
                        !.sleeping_list = Remove(@, t),
                        !.blocked_list = Remove(@, t)]
    IN [k |-> IF t = k.cur THEN yield(k1) ELSE k1, head |-> ListNode]

\* Task::create: the TCB is populated and inserted into the ready list
Task_create(k, t, p) ==
    LET tc == [k.tcb EXCEPT ![t] = [pri |-> p, old_pri |-> p, status |-> "READY"]]
    IN [k EXCEPT !.tcb = tc, !.ready_list = InsertInOrder(@, t, tc)]

\* Task::terminate: unlink, TERMINATED, head word = page base, yield if self.
\* The other fields of a dead TCB are not read again; they are reset.
Task_terminate(k, t) ==
    LET k1 == [k EXCEPT !.tcb[t] = [pri |-> PRI_MIN, old_pri |-> PRI_MIN,
                                        status |-> "TERMINATED"],
                        !.ready_list = Remove(@, t),
                        !.sleeping_list = Remove(@, t),
                        !.blocked_list = Remove(@, t)]
    IN [k |-> IF t = k.cur THEN yield(k1) ELSE k1, head |-> Base(page[t])]

\* Task::block: to the blocked list; block(self) yields
Task_block(k, t) ==
    LET b == block_to_raw(k, t, k.blocked_list)
        k1 == [b.k EXCEPT !.blocked_list = b.list]
    IN IF t = k.cur THEN yield(k1) ELSE k1

\* Task::resume: back to the ready list
Task_resume(k, t) ==
    LET r == resume_raw(k, t, k.blocked_list)
    IN [r.k EXCEPT !.blocked_list = r.list]

----------------------------------------------------------------------------
(* Specification TaskSpec: tasks are created, terminated, blocked and       *)
(* resumed, yield, sleep and use one semaphore, under tick preemption.      *)
(* Specification PoolSpec: create, terminate, yield and the tick;           *)
(* call is history:                                                         *)
(* the task created last, whether no other task has been terminated since,  *)
(* the page it freed if it has been terminated, and the page the last       *)
(* create() took over from a task terminated just before; ret is the page   *)
(* the last create() got.                                                   *)

Live(t) == tcb[t].status # "TERMINATED"

TaskInit ==
    /\ KernelInitFor({})
    /\ fault = "none"
    /\ pc = [t \in AllTasks |-> "run"]
    /\ page_pool = [i \in Pages |-> 0]
    /\ page = [t \in AllTasks |-> IF t = Idle THEN PageOf(palloc([i \in Pages |-> 0])) ELSE 0]
    /\ SemaUnused /\ LockUnused /\ MutexUnused /\ BarrierUnused /\ AsyncUnused /\ GetUnused /\ IrqUnused /\ RrUnused
    /\ PureUnused

taskOther == <<fault, pc, lockVars, mutexVars, barrierVars, asyncVars, getVars, irqVars, rrVars>>

\* A TCB lies in its page: the task that create() makes is named after the
\* page palloc() returns, the idle task having the first page.
NewTask == PageOf(palloc(Pool)) - 1

\* Task::create(fn, arg, p, name); nothing is done when palloc() returns null
Create(p) ==
    /\ fault = "none"
    /\ \E t \in Tasks : ~Live(t)
    /\ LET raw == palloc(Pool)
       IN IF raw = 0
          THEN UNCHANGED <<kernelVars, poolVars>>
          ELSE /\ SetK(Task_create(K, NewTask, p))
               /\ page' = [page EXCEPT ![NewTask] = PageOf(raw)]
               /\ UNCHANGED page_pool
    /\ UNCHANGED <<sema, taskOther>>

\* Task::terminate(t), t not waiting on a primitive (whose count would no
\* longer match its waiting list)
Terminate(t) ==
    /\ fault = "none"
    /\ t \in Tasks /\ Live(t)
    /\ LET r == Task_terminate(K, t)
       IN /\ SetK(r.k)
          /\ page_pool' = [page_pool EXCEPT ![page[t]] = r.head]
    /\ UNCHANGED <<sema, page, taskOther>>

TaskCreate(p) == Create(p) /\ UNCHANGED pureVars

TaskTerminate(t) == Terminate(t) /\ UNCHANGED pureVars

TaskYield(t) ==
    /\ Running(t) /\ t \in Tasks
    /\ SetK(yield(K))
    /\ UNCHANGED <<sema, poolVars, pureVars, taskOther>>

TaskBlock(t) ==
    /\ fault = "none"
    /\ t \in Tasks /\ InSeq(ready_list, t)
    /\ SetK(Task_block(K, t))
    /\ UNCHANGED <<sema, poolVars, pureVars, taskOther>>

TaskResume(t) ==
    /\ fault = "none"
    /\ InSeq(blocked_list, t)
    /\ SetK(Task_resume(K, t))
    /\ UNCHANGED <<sema, poolVars, pureVars, taskOther>>

TaskNext ==
    \/ \E p \in PriLevels : TaskCreate(p)
    \/ \E t \in Tasks : TaskTerminate(t)
    \/ \E t \in Tasks : TaskYield(t)
    \/ \E t \in Tasks : TaskBlock(t)
    \/ \E t \in Tasks : TaskResume(t)
    \/ \E t \in Tasks : TaskDelay(t)
    \/ \E t \in Tasks : TickWake(t)
    \/ Tick

TaskSpec == TaskInit /\ [][TaskNext]_vars

NoCycle == [last |-> 0, clean |-> TRUE, freed |-> 0, reused |-> 0]

PoolInit ==
    /\ KernelInitFor({})
    /\ fault = "none"
    /\ pc = [t \in AllTasks |-> "run"]
    /\ page_pool = [i \in Pages |-> 0]
    /\ page = [t \in AllTasks |-> IF t = Idle THEN PageOf(palloc([i \in Pages |-> 0])) ELSE 0]
    /\ call = NoCycle
    /\ ret = <<>>
    /\ SemaUnused /\ LockUnused /\ MutexUnused /\ BarrierUnused /\ AsyncUnused /\ GetUnused /\ IrqUnused /\ RrUnused

PoolCreate(p) ==
    /\ Create(p)
    /\ LET raw == palloc(Pool)
       IN /\ ret' = <<PageOf(raw)>>
          /\ call' = IF raw = 0 THEN call
                     ELSE [last |-> NewTask, clean |-> TRUE, freed |-> 0,
                           reused |-> IF call.clean /\ call.freed = PageOf(raw)
                                      THEN call.freed ELSE 0]

PoolTerminate(t) ==
    /\ Terminate(t)
    /\ call' = IF t = call.last /\ call.freed = 0
               THEN [call EXCEPT !.freed = page[t]]
               ELSE [call EXCEPT !.clean = FALSE]
    /\ UNCHANGED ret

PoolNext ==
    \/ \E p \in PriLevels : PoolCreate(p)
    \/ \E t \in Tasks : PoolTerminate(t)
    \/ \E t \in Tasks : TaskYield(t)
    \/ Tick

PoolSpec == PoolInit /\ [][PoolNext]_vars

Created(t) == ~Live(t) /\ Live(t)'

Terminated(t) == Live(t) /\ ~Live(t)'

PagesInUse == LET words == Pool IN {i \in Pages : ~unused(Base(i), words[i])}

\* Every live task has a page of its own, no other page is in use, and
\* create() finds a page whenever a TCB slot is free.
NoPageLeak ==
    /\ PagesInUse = {page[t] : t \in {u \in AllTasks : Live(u)}}
    /\ \A t, u \in AllTasks : (Live(t) /\ Live(u) /\ t # u) => page[t] # page[u]
    /\ ret # <<0>>

RecycleStep ==
    \A t \in Tasks : Terminated(t) => Pool'[page[t]] = Base(page[t])

----------------------------------------------------------------------------
(* The RUNNING task *)

RunningTasks == {t \in AllTasks : tcb[t].status = "RUNNING"}

----------------------------------------------------------------------------
(* Specification CvSpec: the tasks use one CondVar_t with one mutex.  A    *)
(* waiter locks the mutex, calls wait(mtx, gen != 0) and unlocks; a        *)
(* signaller sets gen (the condition waited for) and calls notify() or     *)
(* notify_all(), or clears gen again.                                      *)

Signallers == Tasks \ Parties

cvOther == <<semaVars, lockVars, mutexVars, asyncVars, getVars, irqVars, poolVars, rrVars>>

CvInit ==
    /\ KernelInit
    /\ fault = "none"
    /\ pc = [t \in AllTasks |-> "run"]
    /\ BarrierUnused
    /\ SemaUnused /\ LockUnused /\ MutexUnused /\ AsyncUnused /\ GetUnused /\ PureUnused /\ IrqUnused /\ PoolUnused /\ RrUnused

\* mtx.lock() of a waiter
CvLock(t) ==
    /\ Running(t) /\ t \in Parties
    /\ pc[t] = "run"
    /\ LET r == Mutex_lock(K, barrier.mtx)
       IN SetK(r.k) /\ barrier' = [barrier EXCEPT !.mtx = r.m]
    /\ pc' = [pc EXCEPT ![t] = "b_cv_unlock"]
    /\ UNCHANGED <<fault, my_gen, round, arrived, barrierOther>>

\* A signaller makes the condition false again
CvRetract(t) ==
    /\ Running(t) /\ t \in Signallers
    /\ pc[t] = "run" /\ barrier.gen = 1
    /\ barrier' = [barrier EXCEPT !.gen = 0]
    /\ UNCHANGED <<kernelVars, fault, pc, my_gen, round, arrived, barrierOther>>

\* A signaller makes the condition true; its next call is notify() or
\* notify_all()
CvPublish(t) ==
    /\ Running(t) /\ t \in Signallers
    /\ pc[t] = "run" /\ barrier.gen = 0
    /\ barrier' = [barrier EXCEPT !.gen = 1]
    /\ \E op \in {"cv_notify", "cv_notify_all"} : pc' = [pc EXCEPT ![t] = op]
    /\ UNCHANGED <<kernelVars, fault, my_gen, round, arrived, barrierOther>>

\* call: the notification that is about to return and the waiting list it
\* found
CvNotify(t) ==
    /\ Running(t)
    /\ pc[t] = "cv_notify"
    /\ LET r == CondVar_notify(K, barrier.cv)
       IN SetK(r.k) /\ barrier' = [barrier EXCEPT !.cv = r.cv]
    /\ pc' = [pc EXCEPT ![t] = "cv_return"]
    /\ call' = <<"notify", barrier.cv>>
    /\ UNCHANGED <<fault, my_gen, round, arrived, cvOther, ret>>

CvNotifyAll(t) ==
    /\ Running(t)
    /\ pc[t] = "cv_notify_all"
    /\ LET r == CondVar_notify_all(K, barrier.cv)
       IN SetK(r.k) /\ barrier' = [barrier EXCEPT !.cv = r.cv]
    /\ pc' = [pc EXCEPT ![t] = "cv_return"]
    /\ call' = <<"notify_all", barrier.cv>>
    /\ UNCHANGED <<fault, my_gen, round, arrived, cvOther, ret>>

\* notify()/notify_all() returns to the signaller
CvReturn(t) ==
    /\ Running(t)
    /\ pc[t] = "cv_return"
    /\ pc' = [pc EXCEPT ![t] = "run"]
    /\ call' = <<>>
    /\ UNCHANGED <<kernelVars, fault, barrierVars, cvOther, ret>>

\* cv.wait(): mtx.lock(); wait() returns when the task runs again
CvRelock(t) ==
    /\ Running(t)
    /\ pc[t] = "b_cv_lock"
    /\ LET r == Mutex_lock(K, barrier.mtx)
       IN SetK(r.k) /\ barrier' = [barrier EXCEPT !.mtx = r.m]
    /\ pc' = [pc EXCEPT ![t] = "cv_unlock"]
    /\ UNCHANGED <<fault, my_gen, round, arrived, barrierOther>>

\* wait() has returned: the waiter unlocks the mutex
CvUnlock(t) ==
    /\ Running(t)
    /\ pc[t] = "cv_unlock"
    /\ LET r == Mutex_unlock(K, barrier.mtx)
       IN /\ SetK(r.k)
          /\ barrier' = [barrier EXCEPT !.mtx = r.m]
          /\ fault' = r.fault
    /\ pc' = [pc EXCEPT ![t] = "run"]
    /\ UNCHANGED <<my_gen, round, arrived, barrierOther>>

CvNext ==
    \/ \E t \in Parties : CvLock(t)
    \/ \E t \in Parties : BarrierCvUnlock(t)
    \/ \E t \in Parties : BarrierCvPred(t)
    \/ \E t \in Parties : BarrierCvBlock(t)
    \/ \E t \in Parties : CvRelock(t)
    \/ \E t \in Parties : CvUnlock(t)
    \/ \E t \in Signallers : CvPublish(t)
    \/ \E t \in Signallers : CvRetract(t)
    \/ \E t \in Signallers : CvNotify(t)
    \/ \E t \in Signallers : CvNotifyAll(t)
    \/ \E t \in Signallers : CvReturn(t)
    \/ Tick

CvSpec == CvInit /\ [][CvNext]_vars

NotBlocked(t) == tcb[t].status \in {"READY", "RUNNING"}

\* The yield at the end of notify()/notify_all() has been taken: no task
\* of the ready list has a strictly higher priority than the current one.
Yielded ==
    \A i \in 1..Len(ready_list) : tcb[ready_list[i]].pri >= tcb[cur_tcb].pri

InReady(t) == InSeq(ready_list, t)

NotifyStep ==
    \A t \in Signallers : (pc[t] = "cv_notify" /\ pc'[t] = "cv_return") =>
        LET cv == barrier.cv
        IN /\ IF has_waiters(cv)
              THEN /\ barrier.cv' = Tail(cv)
                   /\ InSeq(ready_list', Head(cv))
                   /\ tcb'[Head(cv)].status \in {"READY", "RUNNING"}
                   /\ \A u \in AllTasks \ {Head(cv)} :
                         /\ InSeq(ready_list', u) <=> InReady(u)
                         /\ tcb'[u].status = "BLOCKED" <=> tcb[u].status = "BLOCKED"
              ELSE /\ barrier.cv' = <<>>
                   /\ ready_list' = ready_list
                   /\ \A u \in AllTasks :
                         tcb'[u].status = "BLOCKED" <=> tcb[u].status = "BLOCKED"
           /\ Yielded'

NotifyAllStep ==
    \A t \in Signallers : (pc[t] = "cv_notify_all" /\ pc'[t] = "cv_return") =>
        LET cv == barrier.cv
        IN /\ barrier.cv' = <<>>
           /\ \A u \in AllTasks :
                 IF InSeq(cv, u)
                 THEN InSeq(ready_list', u) /\ tcb'[u].status \in {"READY", "RUNNING"}
                 ELSE /\ InSeq(ready_list', u) <=> InReady(u)
                      /\ tcb'[u].status = "BLOCKED" <=> tcb[u].status = "BLOCKED"
           /\ Yielded'

\* wait() has returned for a task that runs at the statement after it
WaitReturnedOwns ==
    \A t \in Parties :
        (pc[t] = "cv_unlock" /\ NotBlocked(t)) => barrier.mtx.owner = t

\* C29: notify() moves exactly the first waiter to the ready list, none when
\* the waiting list is empty; notify_all() empties the waiting list and
\* makes every former waiter ready; both yield; a task that has returned
\* from wait() owns the mutex.
C29_Notify ==
    /\ []WaitReturnedOwns
    /\ [][NotifyStep /\ NotifyAllStep]_vars

C29_Witness ==
    /\ call # <<>> /\ call[1] = "notify"
    /\ Len(call[2]) = 2
    /\ barrier.cv = Tail(call[2])
    /\ tcb[Head(call[2])].status = "READY"
    /\ \E t \in Parties : pc[t] = "cv_unlock" /\ NotBlocked(t)

----------------------------------------------------------------------------
(* Specification WakeSpec: CvSpec with a condition that is set once and    *)
(* stays true, under a fair scheduler: the tick keeps arriving and a task  *)
(* that is given the processor again and again executes its next step.     *)

WakeStep(t) ==
    \/ CvLock(t)
    \/ BarrierCvUnlock(t)
    \/ BarrierCvPred(t)
    \/ BarrierCvBlock(t)
    \/ CvRelock(t)
    \/ CvUnlock(t)
    \/ CvPublish(t)
    \/ CvNotify(t)
    \/ CvNotifyAll(t)
    \/ CvReturn(t)

WakeNext ==
    \/ \E t \in Parties : CvLock(t)
    \/ \E t \in Parties : BarrierCvUnlock(t)
    \/ \E t \in Parties : BarrierCvPred(t)
    \/ \E t \in Parties : BarrierCvBlock(t)
    \/ \E t \in Parties : CvRelock(t)
    \/ \E t \in Parties : CvUnlock(t)
    \/ \E t \in Signallers : CvPublish(t)
    \/ \E t \in Signallers : CvNotify(t)
    \/ \E t \in Signallers : CvNotifyAll(t)
    \/ \E t \in Signallers : CvReturn(t)
    \/ Tick

\* One waiter and the signallers exist; the other tasks were never created
WakeInit ==
    /\ KernelInitFor({1} \cup Signallers)
    /\ fault = "none"
    /\ pc = [t \in AllTasks |-> "run"]
    /\ BarrierUnused
    /\ SemaUnused /\ LockUnused /\ MutexUnused /\ AsyncUnused /\ GetUnused /\ PureUnused /\ IrqUnused /\ PoolUnused /\ RrUnused

WakeSpec ==
    /\ WakeInit /\ [][WakeNext]_vars
    /\ WF_vars(Tick)
    /\ \A t \in Tasks : SF_vars(WakeStep(t))

\* t is inside wait(), between mtx.unlock() and mtx.lock()
InCvWait(t) == pc[t] \in {"b_pred", "b_block"}

\* notify_all() has just run with the condition true
NotifiedAll == call # <<>> /\ call[1] = "notify_all" /\ barrier.gen = 1

ReturnedFromWait(t) == pc[t] \in {"cv_unlock", "run"} /\ NotBlocked(t)

\* C28: a task inside wait() whose condition has become true and been
\* followed by notify_all() eventually returns from wait().
C28_NoLostWakeup ==
    \A t \in Parties : (InCvWait(t) /\ NotifiedAll) ~> ReturnedFromWait(t)

----------------------------------------------------------------------------
(* List membership *)

----------------------------------------------------------------------------
(* PreemptPri *)

\* The steps of TaskSpec that do not call next_tcb(): create, resume, and
\* block or terminate of a task other than the caller.
NoSwitchCall ==
    \/ \E t \in Tasks : Created(t)
    \/ Len(blocked_list') < Len(blocked_list)
    \/ \E t \in Tasks : t # cur_tcb /\ Terminated(t)
    \/ \E t \in Tasks : t # cur_tcb /\ ~InSeq(blocked_list, t) /\ InSeq(blocked_list', t)

\* A READY task outranks the current one
Outranked == ~Yielded

\* C24: after every step in which next_tcb() chooses (tick, wake-up of a
\* sleeper, yield, delay, block or terminate of the caller) no task of the
\* ready list has a strictly higher priority than the current task; so a
\* task that outranks the current one runs after the next such step; and
\* in every state a call of next_tcb() would choose such a task.
NextTcbChoosesHighest ==
    fault = "none" => \A expired \in BOOLEAN : ~any_higher(next_tcb(K, expired))

SwitchChoosesHighest == [][cur_tcb' # cur_tcb => Yielded']_vars

----------------------------------------------------------------------------
(* FIFO within a priority band *)

\* Specification BandSpec: TaskSpec without sleepers
BandNext ==
    \/ \E p \in PriLevels : TaskCreate(p)
    \/ \E t \in Tasks : TaskTerminate(t)
    \/ \E t \in Tasks : TaskYield(t)
    \/ \E t \in Tasks : TaskBlock(t)
    \/ \E t \in Tasks : TaskResume(t)
    \/ Tick

BandSpec == TaskInit /\ [][BandNext]_vars

\* The position of t in list, 0 when it is not there
Idx(list, t) ==
    IF InSeq(list, t) THEN CHOOSE i \in 1..Len(list) : list[i] = t ELSE 0

\* The ready list is in priority order and the current task is the first
\* of its band
BandHead ==
    /\ \A i \in 1..Len(ready_list) - 1 :
          tcb[ready_list[i]].pri <= tcb[ready_list[i + 1]].pri
    /\ \A i \in 1..Len(ready_list) :
          (tcb[ready_list[i]].pri = tcb[cur_tcb].pri /\ ready_list[i] # cur_tcb)
              => Idx(ready_list, cur_tcb) \in 1..i

\* The tasks that a step puts at a new place of the ready list: those that
\* come onto it, and the incumbent when a task of its own priority is chosen
Moved(t) ==
    /\ InSeq(ready_list', t)
    /\ \/ ~InReady(t)
       \/ t = cur_tcb /\ cur_tcb' # cur_tcb /\ tcb'[cur_tcb'].pri = tcb'[t].pri

FifoStep ==
    \* the other tasks that stay on the ready list keep their order
    /\ SelectSeq(ready_list, LAMBDA t : InSeq(ready_list', t) /\ ~Moved(t))
         = SelectSeq(ready_list', LAMBDA t : InReady(t) /\ ~Moved(t))
    \* a moved task is the last of its band
    /\ \A i \in 1..Len(ready_list') :
          Moved(ready_list'[i])
              => \/ i = Len(ready_list')
                 \/ tcb'[ready_list'[i + 1]].pri > tcb'[ready_list'[i]].pri
    \* the task chosen is the one at the front
    /\ cur_tcb' # cur_tcb => cur_tcb' = Head(ready_list')

----------------------------------------------------------------------------
(* Specification OrderSpec: the tasks use one mutex and one semaphore; a   *)
(* task may call down() while it owns the mutex; an ISR calls              *)
(* up_from_isr().                                                          *)

OrderInit ==
    /\ KernelInit
    /\ fault = "none"
    /\ pc = [t \in AllTasks |-> "run"]
    /\ sema = Sema_t(0)
    /\ MutexUnused
    /\ LockUnused /\ BarrierUnused /\ AsyncUnused /\ GetUnused /\ PureUnused /\ IrqUnused /\ PoolUnused /\ RrUnused

OrderSemaDown(t) == pc[t] = "run" /\ SemaDown(t)

OrderSemaUp(t) == pc[t] = "run" /\ SemaUp(t)

OrderNext ==
    \/ \E t \in Tasks : MutexLock(t, 1)
    \/ \E t \in Tasks : MutexLockReturn(t)
    \/ \E t \in Tasks : MutexUnlock(t, 1)
    \/ \E t \in Tasks : OrderSemaDown(t)
    \/ \E t \in Tasks : OrderSemaUp(t)
    \/ SemaUpFromIsr
    \/ Tick

OrderSpec == OrderInit /\ [][OrderNext]_vars

\* t leaves the waiting list wl in this step as the highest-priority waiter
WokenHighest(wl, wl2) ==
    \A t \in Tasks :
        (InSeq(wl, t) /\ ~InSeq(wl2, t))
            => \A i \in 1..Len(wl) : tcb[t].pri <= tcb[wl[i]].pri

\* C26: every up()/unlock() that wakes a task wakes the waiter of the
\* highest priority among those on the waiting list.
C26_WakeOrder ==
    [][/\ WokenHighest(sema.waiting_list, sema.waiting_list')
       /\ WokenHighest(mutex[1].sema.waiting_list, mutex[1].sema.waiting_list')]_vars

----------------------------------------------------------------------------
(* Specification RrSpec: the RoundRobin policy with NTasks tasks of one    *)
(* priority that only compute; the ready list holds these tasks in the     *)
(* order of their creation.  run_log: the task that ran in each tick;      *)
(* ret: the order of creation.                                             *)

\* RoundRobin next_tcb(): the ready list is rotated by one
rr_next_tcb(k) ==
    LET rl == Tail(k.ready_list) \o <<Head(k.ready_list)>>
    IN switch_to([k EXCEPT !.tcb[k.cur].status = "READY", !.ready_list = rl],
                 Head(rl))

\* The tick that does not give the incumbent a new slice
rr_tick_no_reset(k, ts) ==
    LET left == ts[k.cur] - 1
    IN IF left <= 0
       THEN [k |-> rr_next_tcb(k), ts |-> [ts EXCEPT ![k.cur] = 0]]
       ELSE [k |-> k, ts |-> [ts EXCEPT ![k.cur] = left]]

\* The tick ISR: the slice of the incumbent runs down; at zero it gets a
\* new slice and the switch is requested
rr_tick(k, ts) ==
    LET left == ts[k.cur] - 1
    IN IF left <= 0
       THEN [k |-> rr_next_tcb(k), ts |-> [ts EXCEPT ![k.cur] = TIME_SLICE]]
       ELSE [k |-> k, ts |-> [ts EXCEPT ![k.cur] = left]]

Orders == {o \in [1..NTasks -> Tasks] : \A i, j \in 1..NTasks : i # j => o[i] # o[j]}

RrInit ==
    /\ \E o \in Orders :
          /\ ready_list = o
          /\ cur_tcb = o[1]
          /\ ret = o
          /\ tcb = [t \in AllTasks |->
                       IF t = Idle
                       THEN [pri |-> PRI_MIN, old_pri |-> PRI_MIN, status |-> "TERMINATED"]
                       ELSE [pri |-> 1, old_pri |-> 1,
                             status |-> IF t = o[1] THEN "RUNNING" ELSE "READY"]]
    /\ sleeping_list = <<>> /\ blocked_list = <<>>
    /\ time_slice = [t \in AllTasks |-> IF t = Idle THEN 0 ELSE TIME_SLICE]
    /\ fault = "none"
    /\ pc = [t \in AllTasks |-> "run"]
    /\ AsyncUnused /\ call = <<>>
    /\ SemaUnused /\ LockUnused /\ MutexUnused /\ BarrierUnused /\ GetUnused /\ IrqUnused /\ PoolUnused

RrTick ==
    /\ Len(run_log) < RrCycles * NTasks * TIME_SLICE
    /\ LET r == rr_tick(K, time_slice)
       IN SetK(r.k) /\ time_slice' = r.ts
    /\ run_log' = Append(run_log, cur_tcb)
    /\ UNCHANGED <<fault, pc, semaVars, lockVars, mutexVars, barrierVars, execVars,
                   os_ticks, poll, hist, pushed, poll_no, ticks_done, getVars, irqVars,
                   poolVars, pureVars>>

RrNext == RrTick

RrSpec == RrInit /\ [][RrNext]_vars

\* The task whose turn the i-th tick belongs to
TurnOf(i) == ret[(((i - 1) \div TIME_SLICE) % NTasks) + 1]

\* C27: the tasks run in the cyclic order of the ready list and each turn
\* lasts TIME_SLICE ticks.
C27_RoundRobin ==
    /\ \A i \in 1..Len(run_log) : run_log[i] = TurnOf(i)
    /\ cur_tcb = TurnOf(Len(run_log) + 1)

C27_Witness ==
    /\ Len(run_log) = 2 * NTasks * TIME_SLICE
    /\ ret = <<1, 2, 3>>
    /\ cur_tcb = 1

----------------------------------------------------------------------------
(* Mutex recursion (MutexSpec) *)

Waits(t, m) == InSeq(mutex[m].sema.waiting_list, t)

\* The owner has as many returned lock() calls open as recursive says; a
\* task with an open lock() is the owner.
RecursiveCount ==
    \A t \in Tasks :
        /\ holdcnt[t][1] > 0 => mutex[1].owner = t
        /\ (mutex[1].owner = t /\ ~WokenInLock(t, 1))
              => mutex[1].recursive = holdcnt[t][1]

RecursionStep ==
    \A t \in Tasks :
        \* lock() by the owner
        /\ (mutex[1].owner = t /\ MutexLock(t, 1))
              => /\ mutex' = [mutex EXCEPT ![1].recursive = @ + 1]
                 /\ UNCHANGED kernelVars
                 /\ pc'[t] = "run"
        \* unlock() that leaves recursive > 0
        /\ (mutex[1].recursive > 1 /\ MutexUnlock(t, 1))
              => /\ mutex' = [mutex EXCEPT ![1].recursive = @ - 1]
                 /\ UNCHANGED kernelVars
        \* ownership ends, the priority is restored and a waiter leaves the
        \* waiting list only in the unlock() that brings recursive to 0
        /\ (mutex[1].owner = t
              /\ (mutex'[1].owner # t \/ tcb'[t].pri > tcb[t].pri))
              => /\ mutex[1].recursive = 1 /\ MutexUnlock(t, 1)
                 /\ tcb'[t].pri = tcb[t].old_pri
                 /\ mutex'[1].owner = IF mutex[1].sema.waiting_list = <<>>
                                      THEN NoTask
                                      ELSE Head(mutex[1].sema.waiting_list)
        /\ (Waits(t, 1) /\ ~Waits(t, 1)')
              => /\ mutex[1].recursive = 1 /\ MutexUnlock(mutex[1].owner, 1)
                 /\ mutex'[1].owner = t
        /\ (Waits(t, 1) /\ Waits(t, 1)') => tcb'[t].status = "BLOCKED"

\* C30: a lock() by the owner only increments recursive: the semaphore, the
\* lists and the running task are unchanged and the call returns; the owner
\* of n returned lock() calls stays the owner, and every waiter stays
\* blocked, until the unlock() that brings recursive to 0, and only that
\* unlock() restores the priority and releases or hands off the mutex.
C30_Recursion == []RecursiveCount /\ [][RecursionStep]_vars

C30_Witness ==
    \E t, u \in Tasks :
        /\ mutex[1].owner = t /\ mutex[1].recursive = 2 /\ holdcnt[t][1] = 2
        /\ Waits(u, 1) /\ tcb[u].status = "BLOCKED"
        /\ tcb[t].pri < tcb[t].old_pri
        /\ Running(t)

----------------------------------------------------------------------------
(* Mutex bookkeeping (MutexSpec) *)

MutexBookkeeping ==
    \A m \in MutexIds :
        LET mx == mutex[m]
        IN /\ mx.sema.cnt = 1 - (IF mx.owner # NoTask THEN 1 ELSE 0)
                               - Len(mx.sema.waiting_list)
           /\ mx.owner = NoTask <=> mx.sema.cnt = 1
           /\ mx.recursive >= 1 <=> mx.owner # NoTask
           /\ mx.owner # NoTask => ~InSeq(mx.sema.waiting_list, mx.owner)

\* lock() returns in the call itself or, for a task that blocked, when the
\* task runs again.
LockReturnStep ==
    \A t \in Tasks : \A m \in MutexIds :
        /\ (MutexLock(t, m) /\ pc'[t] = "run") => mutex'[m].owner = t
        /\ (arg[t] = m /\ MutexLockReturn(t)) => mutex'[m].owner = t

\* C31: between the guarded sections of lock() and unlock(), sema.cnt =
\* 1 - (1 if owned) - |waiting list|, owner is null iff sema.cnt = 1,
\* recursive >= 1 iff owner is non-null, the owner is not on the mutex's own
\* waiting list, and a task that returns from lock() is the owner.
C31_Bookkeeping == []MutexBookkeeping /\ [][LockReturnStep]_vars

C31_Witness ==
    \E t, u, v \in Tasks :
        /\ WokenInLock(t, 1) /\ mutex[1].owner = t
        /\ mutex[1].sema.waiting_list = <<u>> /\ mutex[1].sema.cnt = -1
        /\ v \notin {t, u} /\ Running(v) /\ holdcnt[v][1] = 0

----------------------------------------------------------------------------
(* Priority boosts of lock() (MutexSpec) *)

ContenderLock(t, o) ==
    /\ o # NoTask /\ o # t
    /\ mutex[1].owner = o
    /\ MutexLock(t, 1)

BoostStep ==
    \A t \in Tasks : \A o \in Tasks :
        ContenderLock(t, o)
           => /\ tcb'[o].pri <= tcb[o].pri
              /\ tcb[t].pri >= tcb[o].pri => tcb'[o].pri = tcb[o].pri
              /\ tcb[t].pri < tcb[o].pri => tcb'[o].pri = tcb[t].pri
              /\ \A u \in AllTasks \ {o} : tcb'[u].pri = tcb[u].pri

\* Between the owner's lock() and its final unlock() its priority is at most
\* (numerically) the one it was created with.
BoostedOnly == \A t \in AllTasks : tcb[t].pri <= tcb[t].old_pri

\* C32: lock() by a contender whose priority is numerically >= the owner's
\* leaves the owner's priority unchanged, and no lock() by a contender
\* makes the owner's priority numerically larger than it was.
C32_RaiseOnly == []BoostedOnly /\ [][BoostStep]_vars

C32_Witness ==
    \E o, u, v \in Tasks :
        /\ mutex[1].owner = o
        /\ Waits(u, 1) /\ Waits(v, 1) /\ u # v
        /\ tcb[v].pri < tcb[o].old_pri /\ tcb[o].pri = tcb[v].pri
        /\ tcb[u].pri > tcb[v].pri
        /\ mutex[1].sema.waiting_list = <<v, u>>

----------------------------------------------------------------------------
(* Specification UpSpec: tasks call down() and up() on one semaphore and   *)
(* an ISR calls up_from_isr(); call holds the last up: who called it and   *)
(* the count it found.                                                     *)

UpInit ==
    /\ KernelInit
    /\ fault = "none"
    /\ pc = [t \in AllTasks |-> "run"]
    /\ \E n \in 0..MaxCnt : sema = Sema_t(n)
    /\ LockUnused /\ MutexUnused /\ BarrierUnused /\ AsyncUnused /\ GetUnused /\ PureUnused /\ IrqUnused /\ PoolUnused /\ RrUnused

UpCall(t) ==
    /\ Running(t) /\ t \in Tasks
    /\ sema.cnt < MaxCnt
    /\ LET r == Sema_up(K, sema) IN SetK(r.k) /\ sema' = r.s
    /\ call' = <<"up", t, sema.cnt>>
    /\ UNCHANGED <<fault, pc, lockVars, mutexVars, barrierVars, asyncVars, getVars, irqVars, poolVars, rrVars, ret>>

UpFromIsrCall ==
    /\ fault = "none"
    /\ sema.cnt < MaxCnt
    /\ LET r == up_from_isr(K, sema) IN SetK(r.k) /\ sema' = r.s
    /\ call' = <<"up_from_isr", cur_tcb, sema.cnt>>
    /\ UNCHANGED <<fault, pc, lockVars, mutexVars, barrierVars, asyncVars, getVars, irqVars, poolVars, rrVars, ret>>

UpDown(t) ==
    /\ Running(t) /\ t \in Tasks
    /\ LET r == Sema_down(K, sema) IN SetK(r.k) /\ sema' = r.s
    /\ call' = <<>>
    /\ UNCHANGED <<fault, pc, lockVars, mutexVars, barrierVars, asyncVars, getVars, irqVars, poolVars, rrVars, ret>>

UpNext ==
    \/ \E t \in Tasks : UpDown(t)
    \/ \E t \in Tasks : UpCall(t)
    \/ UpFromIsrCall
    \/ Tick

UpSpec == UpInit /\ [][UpNext]_vars

\* What up_raw() does to the semaphore and to the waiters.
UpRawEffect ==
    LET wl == sema.waiting_list
    IN /\ sema'.cnt = sema.cnt + 1
       /\ IF sema.cnt < 0
          THEN /\ sema'.waiting_list = Tail(wl)
               /\ tcb'[Head(wl)].status \in {"READY", "RUNNING"}
               /\ InSeq(ready_list', Head(wl))
               /\ \A u \in AllTasks \ {Head(wl)} :
                     tcb[u].status = "BLOCKED" => tcb'[u].status = "BLOCKED"
          ELSE /\ sema'.waiting_list = wl
               /\ \A u \in AllTasks :
                     tcb[u].status = "BLOCKED" => tcb'[u].status = "BLOCKED"

\* After the resume some READY task has a strictly higher priority than t.
HigherAfterResume(t) ==
    \E u \in AllTasks \ {t} :
        /\ \/ tcb[u].status = "READY"
           \/ sema.cnt < 0 /\ u = Head(sema.waiting_list)
        /\ tcb[u].pri < tcb[t].pri

UpStep ==
    /\ \A t \in Tasks :
          UpCall(t) => /\ UpRawEffect
                       /\ cur_tcb' # t <=> HigherAfterResume(t)
                       /\ irq' = irq
    /\ UpFromIsrCall => /\ UpRawEffect
                         /\ cur_tcb' = cur_tcb
                         /\ tcb'[cur_tcb].status = "RUNNING"
                         /\ irq' = irq

\* C33: up() resumes the first waiter iff cnt < 0 before the call and
\* switches away from the caller iff, after the resume, some READY task has
\* strictly higher priority than the caller; up_from_isr() has the same
\* effect on cnt and the waiting list, never yields and leaves the
\* interrupt-enable state alone.
C33_SemaUp == [][UpStep]_vars

C33_Witness ==
    \E t \in Tasks :
        /\ call = <<"up", t, 0>>
        /\ cur_tcb # t /\ tcb[t].status = "READY"
        /\ tcb[cur_tcb].pri < tcb[t].pri

IsrUpLeavesHigherReady ==
    /\ Len(call) = 3 /\ call[1] = "up_from_isr" /\ call[3] < 0
    /\ cur_tcb = call[2]
    /\ \E u \in Tasks : tcb[u].status = "READY" /\ tcb[u].pri < tcb[cur_tcb].pri

----------------------------------------------------------------------------
(* The double buffer of the executor (AsyncSpec) *)

\* task_buffers[read_idx] while poll() iterates over it
RunList == task_buffers[poll.read_idx + 1]

PingPong ==
    /\ write_idx \in {0, 1}
    /\ ~InDrain => task_buffers[(1 - write_idx) + 1] = <<>>
    /\ InDrain => /\ write_idx = 1 - poll.read_idx
                  /\ Len(RunList) = poll.end

\* From the switch of the buffers to the clear, no step changes the buffer
\* being iterated, and what is pushed goes to the other buffer.
DrainStep ==
    (InDrain /\ InDrain')
       => /\ task_buffers'[poll.read_idx + 1] = RunList
          /\ write_idx' = write_idx
          /\ \A f \in Fns :
                (hist[f].via = "none" /\ hist'[f].via = "post")
                   => task_buffers'[write_idx + 1]
                         = Append(task_buffers[write_idx + 1], f)

\* C34: write_idx is 0 or 1; outside the switch-to-clear part of poll() the
\* buffer that is not the write buffer is empty; during the drain the write
\* buffer is the other one, and no push by post() or clean_sleepers changes
\* the buffer being iterated.
C34_PingPong == []PingPong /\ [][DrainStep]_vars

C34_Witness ==
    \E f, g \in Fns :
        /\ poll.pc = "task" /\ RunningFn = f
        /\ write_idx = 1 /\ poll.read_idx = 0
        /\ hist[g].via = "post" /\ hist[g].parent = f
        /\ task_buffers[write_idx + 1] = <<g>>
        /\ Len(RunList) = 2

----------------------------------------------------------------------------
(* The result of poll() (AsyncSpec) *)

\* poll() leaves through `return false` in the guarded block or through
\* `return true` after run_list.clear().
ReturnsFalse == poll.pc = "swap" /\ poll'.pc = "idle"
ReturnsTrue == poll.pc = "drain" /\ poll'.pc = "idle"

LastRuns(n) == SubSeq(run_log, Len(run_log) - n + 1, Len(run_log))

PollStep ==
    /\ poll.pc = "swap" /\ poll'.pc # "swap"
          => IF task_buffers[write_idx + 1] = <<>>
             THEN /\ ReturnsFalse
                  /\ UNCHANGED <<execVars, run_log, poll_no>>
             ELSE /\ poll'.pc = "drain" /\ poll'.read_idx = write_idx
                  /\ write_idx' = 1 - write_idx
                  /\ UNCHANGED <<task_buffers, run_log>>
    /\ InDrain => write_idx' = write_idx
    /\ ReturnsTrue
          => /\ Len(run_log) >= Len(RunList)
             /\ LastRuns(Len(RunList)) = RunList
             /\ RunList # <<>>
             /\ task_buffers' = [task_buffers EXCEPT ![poll.read_idx + 1] = <<>>]
    /\ Len(run_log') > Len(run_log) => InDrain /\ InDrain'

\* C35: poll() returns false exactly when the write buffer is empty after
\* clean_sleepers(), and then invokes nothing and leaves write_idx and both
\* buffers unchanged; otherwise it flips write_idx once, invokes every
\* entry of the former write buffer, clears that buffer and returns true.
C35_PollResult == [][PollStep]_vars

C35_Witness ==
    /\ poll = PollIdle /\ poll_no = 2
    /\ write_idx = 0
    /\ task_buffers = <<<<>>, <<>>>>
    /\ Len(run_log) = 3
    /\ \E f \in Fns : hist[f].via = "delay" /\ hist[f].runs = 1

----------------------------------------------------------------------------
(* The order of the sleepers heap (AsyncSpec) *)

\* The signed distance from now to the wake tick of n is the smallest one
\* in the heap: n becomes due first.
DueFirst(now, n, sl) ==
    \A o \in sl : Int32NonNeg(Sub32(o.wake_tick, n.wake_tick))

TopIsDueFirst == \A n \in Tops(sleepers) : DueFirst(os_ticks, n, sleepers)

NoDueLeftBehind ==
    CleanStep => \A n \in sleepers' : ~Due(os_ticks, n.wake_tick)

\* C36: the top of the sleepers heap is the sleeper that becomes due
\* earliest by the signed difference of the wake ticks, and clean_sleepers()
\* leaves no due sleeper in the heap, also when the wake ticks straddle the
\* 32-bit wrap.
C36_HeapOrder == []TopIsDueFirst /\ [][NoDueLeftBehind]_vars

----------------------------------------------------------------------------
(* Specification ExecSpec: a task calls Executor::get(), which creates the *)
(* "async/exec" task Exec with priority PRI_MIN / 2; Exec runs             *)
(* while (true) { if (!poll()) Task::yield(); }.  The other tasks have a   *)
(* priority above, equal to or below the executor's; they post callables    *)
(* and delayed callables, yield and sleep.  The posted callables return    *)
(* without calling a blocking API.  call records that Exec has yielded.    *)

Exec == 1

ExecPri == PRI_MIN \div 2

ExecPris == {ExecPri - 1, ExecPri, ExecPri + 1}

Clients == Tasks \ {Exec}

execOther == <<pc, semaVars, lockVars, mutexVars, barrierVars, irqVars, poolVars, rrVars, ret, os_ticks, asyncHist, ticks_done>>

ExecInit ==
    /\ \E p \in {q \in [Clients -> ExecPris] :
                    \A t, u \in Clients : t <= u => q[t] <= q[u]} :
          KernelInitWith(Clients, p)
    /\ fault = "none"
    /\ pc = [t \in AllTasks |-> "run"]
    /\ AsyncUnused /\ GetUnused
    /\ SemaUnused /\ LockUnused /\ MutexUnused /\ BarrierUnused /\ PureUnused /\ IrqUnused /\ PoolUnused /\ RrUnused

\* the executor's idle branch: Task::yield()
Executor_idle_delay(k) == Task_delay(k)

Executor_idle(k) == yield(k)

\* Executor::get(), called once
ExecGet(t) ==
    /\ Running(t) /\ t \in Clients
    /\ ~init_flag
    /\ SetK(Task_create(K, Exec, ExecPri))
    /\ init_flag' = TRUE
    /\ n_exec' = n_exec + 1
    /\ UNCHANGED <<fault, execVars, poll, call, execOther>>

\* Executor::post(fn) by a task, after get(); the callables are alike
ExecPost(t) ==
    /\ Running(t) /\ t \in Clients
    /\ init_flag
    /\ LET r == Executor_post(E, 1)
       IN SetE(r.e) /\ fault' = r.fault
    /\ UNCHANGED <<kernelVars, poll, getVars, call, execOther>>

\* delay_ms(0, fn) by a task, after get()
ExecDelayMs(t) ==
    /\ Running(t) /\ t \in Clients
    /\ init_flag
    /\ LET r == add_sleeper(E, os_ticks, 0, 1)
       IN SetE(r.e) /\ fault' = r.fault
    /\ UNCHANGED <<kernelVars, poll, getVars, call, execOther>>

\* poll(): clean_sleepers()
ExecClean ==
    /\ Running(Exec) /\ poll.pc = "idle"
    /\ \E r \in clean_sleepers(E, os_ticks) : SetE(r.e)
    /\ poll' = [poll EXCEPT !.pc = "swap"]
    /\ UNCHANGED <<kernelVars, fault, getVars, call, execOther>>

\* poll(): the guarded block
ExecSwap ==
    /\ Running(Exec) /\ poll.pc = "swap"
    /\ LET r == Executor_swap(E)
       IN /\ SetE(r.e)
          /\ poll' = IF r.swapped
                     THEN [pc |-> "drain", read_idx |-> r.read_idx, i |-> 1,
                           end |-> Len(task_buffers[r.read_idx + 1])]
                     ELSE [PollIdle EXCEPT !.pc = "yield"]
    /\ UNCHANGED <<kernelVars, fault, getVars, call, execOther>>

\* poll(): task(), which returns
ExecInvoke ==
    /\ Running(Exec) /\ poll.pc = "drain"
    /\ poll.i <= poll.end
    /\ poll' = [poll EXCEPT !.i = @ + 1]
    /\ UNCHANGED <<kernelVars, fault, execVars, getVars, call, execOther>>

\* poll(): run_list.clear(); return true
ExecClear ==
    /\ Running(Exec) /\ poll.pc = "drain"
    /\ poll.i > poll.end
    /\ SetE(Executor_clear(E, poll.read_idx))
    /\ poll' = PollIdle
    /\ UNCHANGED <<kernelVars, fault, getVars, call, execOther>>

\* poll() returned false: Task::yield()
ExecYield ==
    /\ Running(Exec) /\ poll.pc = "yield"
    /\ SetK(Executor_idle(K))
    /\ poll' = PollIdle
    /\ call' = <<"yield">>
    /\ UNCHANGED <<fault, execVars, getVars, execOther>>

ExecNext ==
    \/ \E t \in Clients : ExecGet(t)
    \/ \E t \in Clients : ExecPost(t)
    \/ \E t \in Clients : ExecDelayMs(t)
    \/ ExecClean
    \/ ExecSwap
    \/ ExecInvoke
    \/ ExecClear
    \/ ExecYield
    \/ \E t \in Clients : TaskYield(t)
    \/ \E t \in Clients : TaskDelay(t)
    \/ \E t \in Clients : TickWake(t)
    \/ Tick

ExecSpec == ExecInit /\ [][ExecNext]_vars

ExecRunnable ==
    Live(Exec) => /\ tcb[Exec].status \in {"READY", "RUNNING"}
                  /\ InSeq(ready_list, Exec)
                  /\ ~InSeq(sleeping_list, Exec)
                  /\ ~InSeq(blocked_list, Exec)

\* Whatever calls next_tcb(), the task it returns is not below the executor.
NextNotBelowExec ==
    (fault = "none" /\ Live(Exec))
       => \A expired \in BOOLEAN :
             LET k2 == next_tcb(K, expired)
             IN k2.tcb[k2.cur].pri <= ExecPri

NoLowerSelected ==
    (Live(Exec) /\ cur_tcb' # cur_tcb) => tcb'[cur_tcb'].pri <= ExecPri

\* C37: once created, the executor task is READY or RUNNING and on the
\* ready list in every state, and no task of a strictly lower priority than
\* PRI_MIN / 2 is selected to run.
C37_ExecutorRunnable ==
    []ExecRunnable /\ []NextNotBelowExec /\ [][NoLowerSelected]_vars

C37_Witness ==
    /\ call = <<"yield">>
    /\ Running(Exec) /\ poll.pc = "drain"
    /\ \E t, u \in Clients :
          /\ tcb[t].status = "READY" /\ tcb[t].pri > ExecPri
          /\ tcb[u].pri < ExecPri /\ InSeq(sleeping_list, u)

----------------------------------------------------------------------------
(* Specification CoSpec: a coroutine A is created, started with detach()   *)
(* and runs `co_await delay(d)` CoAwaits times; delay(d) is the coroutine  *)
(* D, which awaits a CallbackAwaiter whose callback hands the lambda       *)
(* Resumer = [h = D] { if (!h.done()) h.resume(); } to delay_ms().  The    *)
(* executor polls; tasks post the callable Filler; the tick advances.      *)
(* call holds the coroutine frames: the state of A and D, D's promise.next *)
(* (0 is null, 1 is A's handle), the number of co_awaits of A, the number  *)
(* of times A was resumed out of one, and the tick and the delay of the    *)
(* last co_await.                                                          *)

CoAwaits == 2

Resumer == "resumer"
Filler == "filler"

CoFrames == [A |-> "none", D |-> "none", next |-> 0, awaits |-> 0,
             resumed |-> 0, at |-> 0, d |-> 0]

coOther == <<kernelVars, pc, semaVars, lockVars, mutexVars, barrierVars, getVars, irqVars, poolVars, rrVars, ret, asyncHist>>

CoInit ==
    /\ KernelInitFor({1})
    /\ fault = "none"
    /\ pc = [t \in AllTasks |-> "run"]
    /\ AsyncUnused /\ GetDone
    /\ call = CoFrames /\ ret = <<>>
    /\ SemaUnused /\ LockUnused /\ MutexUnused /\ BarrierUnused /\ IrqUnused /\ PoolUnused /\ RrUnused

NoneRunning(c) == c.A # "running" /\ c.D # "running"

\* Promise_t::initial_suspend is suspend_always: the new frame is suspended
initial_suspend(c, who) ==
    IF who = "A" THEN [c EXCEPT !.A = "initial"]
    ELSE [c EXCEPT !.D = "initial", !.next = 0]

\* Future_t::await_suspend(next) of A's co_await on D's future: stores the
\* awaiter's handle and returns the awaited handle, which is resumed
Future_await_suspend(c, now, d) ==
    [c EXCEPT !.next = 1, !.A = "awaiting", !.D = "running",
              !.awaits = @ + 1, !.at = now, !.d = d]

\* FutureFinal_t at D's co_return: ready (the frame runs off its end) iff
\* next is null; otherwise await_suspend returns next, which is resumed
D_final_suspend(c) ==
    IF c.next = 0 THEN [c EXCEPT !.D = "destroyed"]
    ELSE [c EXCEPT !.D = "final", !.A = "running", !.resumed = @ + 1]

\* the Resumer lambda: if (!h.done()) h.resume(); D runs to its co_return
Resumer_call(c) ==
    IF c.D = "callback" THEN D_final_suspend(c) ELSE c

\* calling the coroutine function A
CoCreate ==
    /\ fault = "none"
    /\ call.A = "none"
    /\ call' = initial_suspend(call, "A")
    /\ UNCHANGED <<fault, execVars, os_ticks, poll, ticks_done, coOther>>

\* Future_t::detach(): handle.resume()
CoStart ==
    /\ fault = "none"
    /\ call.A = "initial" /\ NoneRunning(call)
    /\ call' = [call EXCEPT !.A = "running"]
    /\ UNCHANGED <<fault, execVars, os_ticks, poll, ticks_done, coOther>>

\* A calls delay(d): the frame of D is created
CoCallDelay ==
    /\ fault = "none"
    /\ call.A = "running" /\ call.D \in {"none", "destroyed"}
    /\ call.awaits < CoAwaits
    /\ call' = initial_suspend(call, "D")
    /\ UNCHANGED <<fault, execVars, os_ticks, poll, ticks_done, coOther>>

\* A: co_await on the future of D
CoAwait(d) ==
    /\ fault = "none"
    /\ call.A = "running" /\ call.D = "initial"
    /\ call' = Future_await_suspend(call, ticks_done, d)
    /\ UNCHANGED <<fault, execVars, os_ticks, poll, ticks_done, coOther>>

\* D: co_await callback_wrapper: CallbackAwaiter::await_suspend calls
\* delay_ms(ticks, Resumer)
CoCallback ==
    /\ fault = "none"
    /\ call.D = "running"
    /\ LET r == add_sleeper(E, os_ticks, call.d, Resumer)
       IN SetE(r.e) /\ fault' = r.fault
    /\ call' = [call EXCEPT !.D = "callback"]
    /\ UNCHANGED <<os_ticks, poll, ticks_done, coOther>>

\* A resumed: await_resume, the temporary Future_t of D is destroyed
CoDestroy ==
    /\ fault = "none"
    /\ call.A = "running" /\ call.D = "final"
    /\ call' = [call EXCEPT !.D = "destroyed"]
    /\ UNCHANGED <<fault, execVars, os_ticks, poll, ticks_done, coOther>>

\* A reaches its end: its next is null, final_suspend is ready
CoFinish ==
    /\ fault = "none"
    /\ call.A = "running" /\ call.D \in {"none", "destroyed"}
    /\ call' = [call EXCEPT !.A = "done"]
    /\ UNCHANGED <<fault, execVars, os_ticks, poll, ticks_done, coOther>>

\* a task posts a callable
CoFiller ==
    /\ fault = "none"
    /\ LET r == Executor_post(E, Filler)
       IN SetE(r.e) /\ fault' = r.fault
    /\ UNCHANGED <<os_ticks, poll, ticks_done, call, coOther>>

CoClean ==
    /\ fault = "none"
    /\ poll.pc = "idle"
    /\ \E r \in clean_sleepers(E, os_ticks) : SetE(r.e)
    /\ poll' = [poll EXCEPT !.pc = "swap"]
    /\ UNCHANGED <<fault, os_ticks, ticks_done, call, coOther>>

CoSwap ==
    /\ fault = "none"
    /\ poll.pc = "swap"
    /\ LET r == Executor_swap(E)
       IN /\ SetE(r.e)
          /\ poll' = IF r.swapped
                     THEN [pc |-> "drain", read_idx |-> r.read_idx, i |-> 1,
                           end |-> Len(task_buffers[r.read_idx + 1])]
                     ELSE PollIdle
    /\ UNCHANGED <<fault, os_ticks, ticks_done, call, coOther>>

\* poll(): task(); the Resumer resumes D, which transfers to A
CoInvoke ==
    /\ fault = "none"
    /\ poll.pc = "drain" /\ poll.i <= poll.end
    /\ NoneRunning(call)
    /\ call' = IF task_buffers[poll.read_idx + 1][poll.i] = Resumer
               THEN Resumer_call(call) ELSE call
    /\ poll' = [poll EXCEPT !.pc = "task"]
    /\ UNCHANGED <<fault, execVars, os_ticks, ticks_done, coOther>>

\* task() returns once the coroutine it resumed has suspended or ended
CoReturn ==
    /\ fault = "none"
    /\ poll.pc = "task" /\ NoneRunning(call)
    /\ poll' = [poll EXCEPT !.pc = "drain", !.i = @ + 1]
    /\ UNCHANGED <<fault, execVars, os_ticks, ticks_done, call, coOther>>

CoClear ==
    /\ fault = "none"
    /\ poll.pc = "drain" /\ poll.i > poll.end
    /\ SetE(Executor_clear(E, poll.read_idx))
    /\ poll' = PollIdle
    /\ UNCHANGED <<fault, os_ticks, ticks_done, call, coOther>>

CoTick ==
    /\ fault = "none"
    /\ ticks_done < MaxTicks + 1
    /\ ticks_done' = ticks_done + 1
    /\ os_ticks' = Add32(os_ticks, 1)
    /\ UNCHANGED <<fault, execVars, poll, call, coOther>>

CoNext ==
    \/ CoCreate
    \/ CoStart
    \/ CoCallDelay
    \/ \E d \in Delays : CoAwait(d)
    \/ CoCallback
    \/ CoDestroy
    \/ CoFinish
    \/ CoFiller
    \/ CoClean
    \/ CoSwap
    \/ CoInvoke
    \/ CoReturn
    \/ CoClear
    \/ CoTick

CoSpec == CoInit /\ [][CoNext]_vars

\* Resumer is in the heap or in a buffer: it will be invoked
ResumerPending ==
    \/ \E n \in sleepers : n.task = Resumer
    \/ InSeq(task_buffers[write_idx + 1], Resumer)
    \/ /\ poll.pc \in {"drain", "task"}
       /\ \E j \in 1..poll.end :
             /\ j >= (IF poll.pc = "drain" THEN poll.i ELSE poll.i + 1)
             /\ task_buffers[poll.read_idx + 1][j] = Resumer

CoFramesOk ==
    /\ ~(call.A = "running" /\ call.D = "running")
    /\ call.A = "awaiting"
          => /\ call.next = 1
             /\ call.D \in {"running", "callback"}
             /\ call.resumed = call.awaits - 1
    /\ call.A \in {"running", "done"} => call.resumed = call.awaits
    /\ call.A \in {"none", "initial"} => call.awaits = 0 /\ call.D = "none"
    /\ call.D = "initial" => ~ResumerPending /\ call.A = "running"

CoStep ==
    \* a suspended new frame starts only by detach()
    /\ (call.A = "initial" /\ call'.A # "initial")
          => call'.A = "running" /\ NoneRunning(call)
    \* co_await stores the awaiter and transfers to the awaited coroutine
    /\ (call.D = "initial" /\ call'.D # "initial")
          => call'.D = "running" /\ call'.next = 1 /\ call'.A = "awaiting"
    \* final suspend transfers to next
    /\ (call.D = "callback" /\ call'.D # "callback")
          => /\ call'.D = "final" /\ call.next = 1 /\ call'.A = "running"
             /\ poll.pc = "drain"
             /\ task_buffers[poll.read_idx + 1][poll.i] = Resumer
    \* A is resumed once, by that transfer, and not before its delay is over
    /\ call'.resumed # call.resumed
          => /\ call'.resumed = call.resumed + 1
             /\ call.A = "awaiting" /\ call.D = "callback"
             /\ ticks_done >= call.at + call.d
    /\ (call.A = "awaiting" /\ call'.A # "awaiting")
          => call'.resumed = call.resumed + 1

\* The parts of the protocol that hold: lazy start, next, the transfers, at
\* most one resumption per co_await, none before the delay is over.
CoProtocol == []CoFramesOk /\ [][CoStep]_vars

\* A coroutine suspended in co_await delay(d) has its resumption pending.
ResumptionKept ==
    (fault = "none" /\ call.A = "awaiting" /\ call.D = "callback")
       => ResumerPending

\* C38: a new coroutine is suspended until it is started or awaited;
\* co_await on a future stores the awaiter in the awaited promise's next and
\* runs the awaited coroutine; at final suspend control goes to next iff it
\* is non-null; an awaiting coroutine is resumed exactly once per co_await,
\* for delay(d) no earlier than d ticks after the await.
C38_Continuation == []CoFramesOk /\ []ResumptionKept /\ [][CoStep]_vars

\* A has been resumed out of both of its co_awaits.
CoResumedTwice ==
    call.A = "done" /\ call.awaits = CoAwaits /\ call.resumed = CoAwaits

----------------------------------------------------------------------------
(* Specification GuardSpec: the interrupt-enable state under IrqGuard_t.   *)
(* Thread code constructs and destroys guards of its own (up to MaxNest),  *)
(* switches interrupts off and on outside any guard, and calls kernel      *)
(* operations, each the sequence of guard constructions, mutations of      *)
(* shared kernel data, yield requests and guard destructions of its code;  *)
(* an ISR calls up_from_isr() when interrupts are enabled.  call holds the *)
(* operation in progress and its position, the saved states of the live   *)
(* guards (innermost first) and the pending context-switch request; ret    *)
(* holds the last mutation: operation, position, interrupt-enable state.   *)

MaxNest == 2

Prog ==
    [post        |-> <<"enter", "mut", "exit">>,
     poll        |-> <<"enter", "mut", "exit", "enter", "mut", "exit", "mut">>,
     notify      |-> <<"enter", "mut", "yield", "exit">>,
     palloc      |-> <<"enter", "exit">>,
     up_from_isr |-> <<"mut">>]

Ops == DOMAIN Prog

guardOther == <<kernelVars, fault, pc, semaVars, lockVars, mutexVars, barrierVars, asyncVars, getVars, poolVars, rrVars>>

\* IrqGuard_t(): save the interrupt-enable state, disable interrupts
IrqGuard_construct(i, st) == [irq |-> FALSE, stack |-> <<i>> \o st]

IrqGuard_destroy_enable(i, st) == [irq |-> TRUE, stack |-> Tail(st)]

\* ~IrqGuard_t(): restore the saved state
IrqGuard_destroy(i, st) == [irq |-> Head(st), stack |-> Tail(st)]

GuardInit ==
    /\ KernelInitFor({1})
    /\ fault = "none"
    /\ pc = [t \in AllTasks |-> "run"]
    /\ irq = TRUE
    /\ call = [op |-> "none", pos |-> 0, stack |-> <<>>, pend |-> FALSE]
    /\ ret = <<>>
    /\ SemaUnused /\ LockUnused /\ MutexUnused /\ BarrierUnused /\ AsyncUnused /\ GetUnused /\ PoolUnused /\ RrUnused

\* thread code: { IrqGuard_t guard; ...
UserGuard ==
    /\ call.op = "none" /\ Len(call.stack) < MaxNest
    /\ LET g == IrqGuard_construct(irq, call.stack)
       IN irq' = g.irq /\ call' = [call EXCEPT !.stack = g.stack]
    /\ UNCHANGED <<ret, guardOther>>

\* ... }
UserUnguard ==
    /\ call.op = "none" /\ call.stack # <<>>
    /\ LET g == IrqGuard_destroy(irq, call.stack)
       IN irq' = g.irq /\ call' = [call EXCEPT !.stack = g.stack]
    /\ UNCHANGED <<ret, guardOther>>

\* MOS_DISABLE_IRQ() / MOS_ENABLE_IRQ() outside any guard
UserToggle ==
    /\ call.op = "none" /\ call.stack = <<>>
    /\ irq' = ~irq
    /\ UNCHANGED <<call, ret, guardOther>>

\* An operation is called; the ISR runs only with interrupts enabled.
OpStart(op) ==
    /\ call.op = "none"
    /\ op = "up_from_isr" => irq
    /\ call' = [call EXCEPT !.op = op, !.pos = 1]
    /\ UNCHANGED <<irq, ret, guardOther>>

OpStep ==
    /\ call.op # "none"
    /\ LET tok == Prog[call.op][call.pos]
           last == call.pos = Len(Prog[call.op])
           g == IF tok = "enter" THEN IrqGuard_construct(irq, call.stack)
                ELSE IF tok = "exit" THEN IrqGuard_destroy(irq, call.stack)
                ELSE [irq |-> irq, stack |-> call.stack]
       IN /\ irq' = g.irq
          /\ call' = [op |-> IF last THEN "none" ELSE call.op,
                      pos |-> IF last THEN 0 ELSE call.pos + 1,
                      stack |-> g.stack,
                      pend |-> call.pend \/ tok = "yield"]
          /\ ret' = IF tok = "mut" THEN <<call.op, call.pos, irq>> ELSE ret
    /\ UNCHANGED guardOther

\* The pended context switch is taken once interrupts are enabled.
Switch ==
    /\ call.pend /\ irq
    /\ call' = [call EXCEPT !.pend = FALSE]
    /\ UNCHANGED <<irq, ret, guardOther>>

GuardNext ==
    \/ UserGuard
    \/ UserUnguard
    \/ UserToggle
    \/ \E op \in Ops : OpStart(op)
    \/ OpStep
    \/ Switch

GuardSpec == GuardInit /\ [][GuardNext]_vars

\* While a guard is alive interrupts are disabled.
GuardsNest == call.stack # <<>> => ~irq

GuardStep ==
    /\ Len(call'.stack) < Len(call.stack)
          => /\ irq' = Head(call.stack)
             /\ call'.stack # <<>> => ~irq'
    /\ (call.pend /\ ~call'.pend) => call.stack = <<>>

\* The mutations the code makes outside every guard: up_from_isr() has no
\* guard, and poll() clears the drained buffer after its guarded block.
Unguarded(op, pos) ==
    \/ op = "up_from_isr"
    \/ op = "poll" /\ pos = Len(Prog.poll)

MutationsGuarded ==
    ret # <<>> => (ret[3] = FALSE \/ Unguarded(ret[1], ret[2]))

AllMutationsGuarded == ret # <<>> => ret[3] = FALSE

----------------------------------------------------------------------------
(* Specification CreateSpec: Task::create() as its callers run it, in two  *)
(* steps a tick can separate: palloc(POOL) under its own guard, then the   *)
(* TCB is built at the base of the page with its list node zeroed and,     *)
(* under a second guard, inserted into the ready list.  Between the two    *)
(* the first word of the page is still null or the page base.              *)
(* call[t] is the page palloc() handed to the create() that task t has in  *)
(* flight (0: none); ret[i] is history: the number of create() calls that  *)
(* have built a task on page i since the page was last released.           *)

createOther == <<semaVars, lockVars, mutexVars, barrierVars, asyncVars, getVars, irqVars, rrVars>>

\* The tasks of S exist, task t on page t + 1, the idle task on the first page
CreateInit ==
    /\ \E S \in (SUBSET Tasks) \ {{}, Tasks} :
          /\ KernelInitFor(S)
          /\ page = [t \in AllTasks |-> IF t \in S \cup {Idle}
                                        THEN PageOf(Base(1)) + t ELSE 0]
    /\ fault = "none"
    /\ pc = [t \in AllTasks |-> "run"]
    /\ page_pool = [i \in Pages |-> 0]
    /\ call = [t \in AllTasks |-> 0]
    /\ ret = [i \in Pages |-> IF \E t \in AllTasks : Live(t) /\ page[t] = i
                              THEN 1 ELSE 0]
    /\ SemaUnused /\ LockUnused /\ MutexUnused /\ BarrierUnused /\ AsyncUnused /\ GetUnused /\ IrqUnused /\ RrUnused

\* create() by task t, first step: palloc(POOL); null ends the call
CreatePalloc(t) ==
    /\ Running(t) /\ t \in Tasks
    /\ pc[t] = "run"
    /\ LET raw == palloc(Pool)
       IN IF raw = 0
          THEN UNCHANGED <<pc, call>>
          ELSE /\ pc' = [pc EXCEPT ![t] = "build"]
               /\ call' = [call EXCEPT ![t] = PageOf(raw)]
    /\ UNCHANGED <<kernelVars, fault, poolVars, ret, createOther>>

\* create() by task t, second step: the TCB is built on the page and
\* inserted into the ready list.  When a task lives on the page already its
\* TCB and stack are overwritten; what the kernel lists hold after that is
\* not followed: the model stops there.
CreateLink(t, p) ==
    /\ Running(t) /\ t \in Tasks
    /\ pc[t] = "build"
    /\ LET i == call[t]
           n == i - PageOf(Base(1))
       IN /\ ret' = [ret EXCEPT ![i] = @ + 1]
          /\ IF Live(n)
             THEN /\ fault' = "TCB overwritten"
                  /\ UNCHANGED <<kernelVars, poolVars>>
             ELSE /\ SetK(Task_create(K, n, p))
                  /\ page' = [page EXCEPT ![n] = i]
                  /\ UNCHANGED <<fault, page_pool>>
    /\ pc' = [pc EXCEPT ![t] = "run"]
    /\ call' = [call EXCEPT ![t] = 0]
    /\ UNCHANGED createOther

\* Task::terminate(t) of a task that is not inside create()
CreateTerminate(t) ==
    /\ pc[t] = "run"
    /\ Terminate(t)
    /\ ret' = [ret EXCEPT ![page[t]] = 0]
    /\ UNCHANGED call

CreateNext ==
    \/ \E t \in Tasks : CreatePalloc(t)
    \/ \E t \in Tasks, p \in PriLevels : CreateLink(t, p)
    \/ \E t \in Tasks : CreateTerminate(t)
    \/ \E t \in Tasks : TaskYield(t)
    \/ Tick

CreateSpec == CreateInit /\ [][CreateNext]_vars

\* palloc(POOL) looks only at the first words: at the moment it returns a
\* page no live task owns it.
FreshWhenHandedOut ==
    \A t \in Tasks :
        (call[t]' # call[t] /\ call[t]' # 0) =>
            \A u \in AllTasks : Live(u) => page[u] # call[t]'

PallocFresh == [][FreshWhenHandedOut]_vars

\* C40: for every interleaving of Task::create and Task::terminate calls by
\* preemptible tasks no two live tasks share a stack page: no page holds
\* two tasks created on it and not terminated, although palloc(POOL) does
\* not mark the page it returns and the page counts as unused until its
\* first word is neither null nor the page base.
C40_NoSharedPage == \A i \in Pages : ret[i] <= 1

\* Two create() calls in flight hold the same page
SamePageTwice ==
    \E t, u \in Tasks : t # u /\ call[t] # 0 /\ call[t] = call[u]

====
